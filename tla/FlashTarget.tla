----------------------------- MODULE FlashTarget -----------------------------
(***************************************************************************)
(* How `tails flash` picks a stick it may overwrite: it lists the          *)
(* removable disks with what is mounted on them, refuses a mounted one     *)
(* with the commands that take it down, and the owner runs those commands  *)
(* and starts again.  Meanwhile the desktop unlocks and mounts things.     *)
(*                                                                         *)
(* A disk is the root of a tree of block devices, as lsblk shows it: the   *)
(* partitions of a disk, a LUKS container opened on one, a logical volume  *)
(* in that.  The mount points of a disk are "outer", "inner", which lies   *)
(* inside outer, and "other"; no disk is mounted inside another.           *)
(***************************************************************************)
EXTENDS Naturals, Sequences, SequencesExt

CONSTANTS
  NumDisks,     \* disks are 1..NumDisks
  NumNodes,     \* bound: block devices, the disks included
  MaxTouches,   \* bound: how often the desktop opens or mounts something
  Platform      \* "linux" or "macos"

ASSUME NodeAssumption == NumDisks \in Nat \ {0} /\ NumNodes \in Nat /\ NumDisks <= NumNodes
ASSUME TouchAssumption == MaxTouches \in Nat
ASSUME PlatformAssumption == Platform \in {"linux", "macos"}

Disks == 1..NumDisks
Nodes == 1..NumNodes
Points == Disks \X {"outer", "inner", "other"}
Inside(a, b) == a[1] = b[1] /\ a[2] = "inner" /\ b[2] = "outer"

VARIABLES
  parent, type,   \* the tree of block devices; a disk's parent is 0
  fit,            \* disks that are removable and at least 8 GB
  there,          \* block devices that exist now
  mounts,         \* what is mounted where, in the order it was mounted
  touches,        \* how often the desktop has opened or mounted something
  step,           \* where the owner and `tails flash` are
  devices,        \* what the listing said of each fit disk
  target,         \* the disk the owner named, 0 for none
  todo,           \* commands the owner was told to run and has yet to
  quiet,          \* has the desktop touched nothing since the listing
  plain           \* at the listing: no mount over or inside another one, and
                  \* no logical volume

tree == <<parent, type, fit>>
targetVars == <<tree, there, mounts, touches, step, devices, target, todo, quiet, plain>>

Crypts == {n \in Nodes : type[n] = "crypt"}
Command == [cmd : {"umount"}, point : Points] \cup [cmd : {"close"}, node : Crypts]

Children(n) == {c \in there : parent[c] = n}
DiskOf[n \in Nodes] == IF parent[n] = 0 THEN n ELSE DiskOf[parent[n]]
MountedNodes == {mounts[i].node : i \in DOMAIN mounts}
MountPoint(n) == (CHOOSE m \in Range(mounts) : m.node = n).point
Busy(n) == n \in MountedNodes \/ Children(n) # {}

Plain ==
  /\ \A i, j \in DOMAIN mounts : i # j =>
       mounts[i].point # mounts[j].point /\ ~Inside(mounts[i].point, mounts[j].point)
  /\ \A n \in there : type[n] # "lvm"

\* Any tree of up to NumNodes block devices.  Nothing is mounted or unlocked yet.
TargetInit ==
  /\ parent \in [Nodes -> 0..NumNodes] /\ type \in [Nodes -> {"disk", "part", "crypt", "lvm"}]
  /\ \A n \in Nodes :
       IF n \in Disks THEN parent[n] = 0 /\ type[n] = "disk"
       ELSE /\ parent[n] \in 1..(n - 1) /\ type[n] # "disk"
            /\ type[n] = "part" => parent[n] \in Disks
            /\ Platform = "macos" => type[n] = "part"
  /\ fit \in SUBSET Disks
  /\ there = {n \in Nodes : type[n] \in {"disk", "part"}}
  /\ mounts = <<>> /\ touches = 0
  /\ step = "idle" /\ devices = <<>> /\ target = 0 /\ todo = <<>>
  /\ quiet = TRUE /\ plain = TRUE
-----------------------------------------------------------------------------
(* Listing the removable disks.                                            *)

\* The first n of a family of sequences, one after the other.
Joined(s, n) ==
  LET upto[k \in 0..n] == IF k = 0 THEN <<>> ELSE upto[k - 1] \o s[k]
  IN upto[n]

\* The devices inside n, child after child, each after those inside it.
InsideFirst[n \in Nodes] ==
  Joined([k \in Nodes |-> IF k \in Children(n) THEN InsideFirst[k] \o <<k>> ELSE <<>>],
         NumNodes)

NewPoint(found, n) == n \in MountedNodes /\ ~Contains(found.points, MountPoint(n))

\* Mutant: a logical volume is closed like a LUKS container.
CollectAnyClose(found, n) ==
  LET umount == IF NewPoint(found, n) THEN <<MountPoint(n)>> ELSE <<>> IN
  [points |-> found.points \o umount,
   commands |-> found.commands
     \o [i \in DOMAIN umount |-> [cmd |-> "umount", point |-> umount[i]]]
     \o IF type[n] \in {"crypt", "lvm"} THEN <<[cmd |-> "close", node |-> n]>> ELSE <<>>]

\* Mutant: a LUKS container is closed before it is unmounted.
CollectCloseFirst(found, n) ==
  LET umount == IF NewPoint(found, n) THEN <<MountPoint(n)>> ELSE <<>> IN
  [points |-> found.points \o umount,
   commands |-> found.commands
     \o (IF type[n] = "crypt" THEN <<[cmd |-> "close", node |-> n]>> ELSE <<>>)
     \o [i \in DOMAIN umount |-> [cmd |-> "umount", point |-> umount[i]]]]

\* Mutant: a LUKS container is closed without unmounting it.
CollectCloseOnly(found, n) ==
  LET umount == IF NewPoint(found, n) THEN <<MountPoint(n)>> ELSE <<>> IN
  [points |-> found.points \o umount,
   commands |-> found.commands
     \o IF type[n] = "crypt" THEN <<[cmd |-> "close", node |-> n]>>
        ELSE [i \in DOMAIN umount |-> [cmd |-> "umount", point |-> umount[i]]]]

\* A mount point is taken down once; a LUKS container is closed after that.
Collect(found, n) ==
  LET umount == IF NewPoint(found, n) THEN <<MountPoint(n)>> ELSE <<>> IN
  [points |-> found.points \o umount,
   commands |-> found.commands
     \o [i \in DOMAIN umount |-> [cmd |-> "umount", point |-> umount[i]]]
     \o IF type[n] = "crypt" THEN <<[cmd |-> "close", node |-> n]>> ELSE <<>>]

\* Mutant: only the partitions are looked at, not what is inside them.
VisitedFlat(d) ==
  Joined([k \in Nodes |-> IF k \in Children(d) THEN <<k>> ELSE <<>>], NumNodes) \o <<d>>

\* diskutil tells of the disk alone, lsblk of its whole tree.
Visited(d) == IF Platform = "macos" THEN <<d>> ELSE InsideFirst[d] \o <<d>>

\* What has been collected when the last of the devices has been visited.
Collected(visited) ==
  LET found[i \in 0..Len(visited)] ==
        IF i = 0 THEN [points |-> <<>>, commands |-> <<>>]
        ELSE Collect(found[i - 1], visited[i])
  IN found[Len(visited)]

BlockDevice(d) ==
  LET found == Collected(Visited(d)) IN
  [found EXCEPT !.commands = IF Platform = "macos"
     THEN [i \in DOMAIN found.points |-> [cmd |-> "umount", point |-> found.points[i]]]
     ELSE @]

AllCommands(devs) ==
  Joined([d \in Disks |-> IF d \in DOMAIN devs THEN devs[d].commands ELSE <<>>], NumDisks)

\* The owner starts `tails flash`.  When everything is mounted it says so at once.
ListDevices ==
  LET devs == [d \in fit |-> BlockDevice(d)] IN
  /\ step = "idle" /\ fit # {}
  /\ devices' = devs
  /\ IF \A d \in fit : devs[d].points # <<>>
     THEN step' = "advised" /\ todo' = AllCommands(devs)
     ELSE step' = "choose" /\ todo' = <<>>
  /\ target' = 0 /\ quiet' = TRUE /\ plain' = Plain
  /\ UNCHANGED <<tree, there, mounts, touches>>

\* validate_flash_target, on what the listing said.
Choose(d) ==
  /\ step = "choose" /\ d \in fit
  /\ target' = d
  /\ IF devices[d].points # <<>>
     THEN step' = "advised" /\ todo' = devices[d].commands
     ELSE step' = "confirm" /\ todo' = <<>>
  /\ UNCHANGED <<tree, there, mounts, touches, devices, quiet, plain>>

\* The path is typed once more, and the image is written.
Confirm ==
  /\ step = "confirm"
  /\ step' = "flash"
  /\ UNCHANGED <<tree, there, mounts, touches, devices, target, todo, quiet, plain>>
-----------------------------------------------------------------------------
(* The owner follows the advice.  A command that fails is passed over.     *)

\* A mount that a later one hides, or that a later one lies in, cannot be undone.
CanUmount(i) ==
  \A j \in DOMAIN mounts : j > i =>
    /\ mounts[j].point # mounts[i].point
    /\ ~Inside(mounts[j].point, mounts[i].point) /\ ~Inside(mounts[i].point, mounts[j].point)

Umount(point) ==
  LET now == {i \in DOMAIN mounts : mounts[i].point = point /\ CanUmount(i)} IN
  /\ mounts' = IF now = {} THEN mounts ELSE RemoveAt(mounts, CHOOSE i \in now : TRUE)
  /\ UNCHANGED there

CryptsetupClose(n) ==
  /\ there' = IF Busy(n) THEN there ELSE there \ {n}
  /\ UNCHANGED mounts

RunCommand ==
  /\ step = "advised" /\ todo # <<>>
  /\ \/ Head(todo).cmd = "umount" /\ Umount(Head(todo).point)
     \/ Head(todo).cmd = "close" /\ CryptsetupClose(Head(todo).node)
  /\ todo' = Tail(todo)
  /\ UNCHANGED <<tree, touches, step, devices, target, quiet, plain>>

StartAgain ==
  /\ step = "advised" /\ todo = <<>>
  /\ step' = "idle"
  /\ UNCHANGED <<tree, there, mounts, touches, devices, target, todo, quiet, plain>>
-----------------------------------------------------------------------------
(* The desktop, until the image is written.                                *)

Touch ==
  /\ step # "flash" /\ touches < MaxTouches
  /\ touches' = touches + 1 /\ quiet' = FALSE
  /\ UNCHANGED <<tree, step, devices, target, todo, plain>>

Unlock(n) ==            \* a LUKS container is opened, a logical volume activated
  /\ Touch
  /\ n \notin there /\ parent[n] \in there /\ parent[n] \notin MountedNodes
  /\ there' = there \cup {n}
  /\ UNCHANGED mounts

Mount(n) ==
  /\ Touch
  /\ n \in there /\ ~Busy(n)
  /\ \E point \in Points : /\ point[1] = DiskOf[n]
                           /\ mounts' = Append(mounts, [node |-> n, point |-> point])
  /\ UNCHANGED there

Flashing == ListDevices \/ (\E d \in Disks : Choose(d)) \/ Confirm
Owner == RunCommand \/ StartAgain
Desktop == \E n \in Nodes : Unlock(n) \/ Mount(n)

TargetNext == Flashing \/ Owner \/ Desktop

\* The owner goes on until the image is written.
Fairness == WF_targetVars(Flashing) /\ WF_targetVars(Owner)

TargetSpec == TargetInit /\ [][TargetNext]_targetVars /\ Fairness
-----------------------------------------------------------------------------
\* The type of every variable.
TargetTypeOK ==
  /\ there \subseteq Nodes /\ \A n \in there : parent[n] \in there \cup {0}
  /\ mounts \in Seq([node : there, point : Points])
  /\ touches \in 0..MaxTouches
  /\ step \in {"idle", "choose", "confirm", "flash", "advised"}
  /\ \A d \in DOMAIN devices : /\ devices[d].points \in Seq(Points)
                               /\ devices[d].commands \in Seq(Command)
  /\ target \in Disks \cup {0}
  /\ todo \in Seq(Command)
  /\ quiet \in BOOLEAN /\ plain \in BOOLEAN

Down(d) ==
  /\ \A n \in MountedNodes : DiskOf[n] # d
  /\ \A n \in there \cap Crypts : DiskOf[n] # d

\* A disk passes the check only when nothing on it was mounted at the listing, in
\* a partition, a LUKS container or a volume in one (BlockDevice: "Mount points of
\* any child filesystems (empty if unmounted)").  What the desktop mounts after
\* the listing the check does not see.
AcceptedUnmounted ==
  step = "confirm" /\ quiet => \A n \in MountedNodes : DiskOf[n] # target

\* Once all the commands have run, in their order, every disk they were for is
\* unmounted and its LUKS containers are closed (collect_mount_info: "unmount
\* filesystems first (deepest first), then close LUKS/crypt containers"), unless
\* mounts were nested or a logical volume kept a container open.
AdviceSuffices ==
  step = "advised" /\ todo = <<>> /\ quiet /\ plain
    => \A d \in fit : target \in {0, d} => Down(d)

\* An owner who runs the commands and starts again gets to write the image, also
\* when mounts are nested or one hides another, so that some of the commands
\* fail and one round is not enough ("Run these commands, then re-run").
EventuallyFlashed == fit # {} => <>(step = "flash")
==============================================================================
