---------------------------- MODULE TailsPersist ----------------------------
(***************************************************************************)
(* `tails persist`: on a computer that cannot run what Tails runs, the     *)
(* download of a kdub for Tails; then create_persistent_storage, command   *)
(* by command, on the USB sticks.  What parted, sgdisk, cryptsetup, mkfs   *)
(* and mount do to a stick is external, modelled from what the code        *)
(* expects of them: each takes effect as a whole or fails without one.     *)
(* All runs use the same mapper name, so at most one stick is unlocked at  *)
(* a time.  `tails flash` overwrites sticks meanwhile, also those that a   *)
(* run is working on: it looks at mount points only, and when it lists.    *)
(* What the run's next commands do on such a stick, succeed or fail, is    *)
(* left open.                                                              *)
(***************************************************************************)
EXTENDS Naturals

CONSTANTS
  Procs,      \* `tails persist` processes that may run at the same time
  Sticks,     \* USB sticks
  Archs,      \* what the computer may be
  MaxFlashes, \* bound on the sticks that `tails flash` accepts
  NoStick     \* what the mapper name stands for when it is free

ASSUME StickAssumption == NoStick \notin Sticks
ASSUME FlashAssumption == MaxFlashes \in Nat

\* What a stick needs before Tails accepts it, in the order it is done.
Required == {"guid", "resize", "fat", "part", "type", "luks", "fs", "layout", "files", "kdub"}
Work == Required \cup {"tight"}
Content == {"layout", "files", "kdub", "tight"}  \* lives in the file system

VARIABLES
  disk,       \* what has been done to each stick since it was flashed
  mapper,     \* the stick that /dev/mapper/NAME unlocks
  mounted,    \* is its file system mounted on somebody's temporary directory
  proc,       \* where each process is, on which stick, and what failed
  created,    \* sticks reported as "Persistent storage created"
  target,     \* sticks that a `tails flash` has accepted and may write to
  spoilt,     \* history: sticks flashed while a run was working on them
  flashes,    \* sticks accepted so far
  arch,       \* what the computer is
  archive,    \* kdub-linux-amd64.tar.gz in the cache
  binary      \* kdub-linux-amd64 in the cache

sticks == <<disk, mapper, mounted, created>>
cache == <<arch, archive, binary>>
flash == <<target, spoilt, flashes>>
vars == <<sticks, proc, cache, flash>>

Idle == [step |-> "idle", stick |-> NoStick, failed |-> {}]

Init ==
  /\ disk = [d \in Sticks |-> {}]
  /\ mapper = NoStick /\ mounted = FALSE
  /\ proc = [p \in Procs |-> Idle]
  /\ created = {} /\ target = {} /\ spoilt = {} /\ flashes = 0
  /\ arch \in Archs /\ archive = "absent" /\ binary = "absent"

\* resolve_kdub_binary_source: may the running kdub be copied, or has one to be
\* downloaded?  On other computers the command ends here.
KdubBinarySource ==
  [a \in {"x86_64", "aarch64"} |-> IF a = "x86_64" THEN "tools" ELSE "get"]

\* The step after a command that succeeded, and after one that failed: up to
\* luks_open a failure ends the run at once, from then on luks_close is always
\* reached, and a failed populate_persistence still unmounts.
After ==
  [get |-> "fill", fill |-> "verify", verify |-> "extract", extract |-> "unpack",
   unpack |-> "tools", tools |-> "guid", guid |-> "resize", resize |-> "fat", fat |-> "part",
   part |-> "type", type |-> "luks", luks |-> "open", open |-> "mkfs",
   mkfs |-> "mount", mount |-> "layout", layout |-> "files", files |-> "tight",
   tight |-> "umount", umount |-> "drop", drop |-> "close", close |-> "idle"]
\* Mutant: a failed luks_open is cleaned up after as well.
OnFailureOpenCloses ==
  [get |-> "idle", fill |-> "idle", extract |-> "idle", unpack |-> "idle",
   tools |-> "idle", guid |-> "idle", resize |-> "idle", fat |-> "idle",
   part |-> "idle", type |-> "idle", luks |-> "idle", open |-> "close",
   mkfs |-> "close", mount |-> "drop", layout |-> "drop", files |-> "tight",
   tight |-> "umount", umount |-> "drop", close |-> "idle"]
\* Mutant: a failed populate_persistence returns at once.
OnFailureFilesReturns ==
  [get |-> "idle", fill |-> "idle", extract |-> "idle", unpack |-> "idle",
   tools |-> "idle", guid |-> "idle", resize |-> "idle", fat |-> "idle",
   part |-> "idle", type |-> "idle", luks |-> "idle", open |-> "idle",
   mkfs |-> "close", mount |-> "drop", layout |-> "drop", files |-> "drop",
   tight |-> "umount", umount |-> "drop", close |-> "idle"]
OnFailure ==
  [get |-> "idle", fill |-> "idle", extract |-> "idle", unpack |-> "idle",
   tools |-> "idle", guid |-> "idle", resize |-> "idle", fat |-> "idle",
   part |-> "idle", type |-> "idle", luks |-> "idle", open |-> "idle",
   mkfs |-> "close", mount |-> "drop", layout |-> "drop", files |-> "tight",
   tight |-> "umount", umount |-> "drop", close |-> "idle"]

At(p, step) == proc[p].step = step
Goto(p, step) ==
  proc' = [proc EXCEPT ![p] = IF step = "idle" THEN Idle ELSE [@ EXCEPT !.step = step]]
Done(p, step) == At(p, step) /\ Goto(p, After[step])
Alone == \A p \in Procs : proc[p] = Idle

\* The sticks that a run has begun to change and has not done with.
Untouched == {"idle", "get", "fill", "verify", "extract", "unpack", "tools", "guid"}
Busy == {proc[p].stick : p \in {q \in Procs : proc[q].step \notin Untouched}}
-----------------------------------------------------------------------------
\* run_persist has its passphrase and its stick.  Where kdub has to be downloaded the
\* model has one run at a time: two would share the two files in the cache.
Begin(p) ==
  /\ proc[p] = Idle /\ arch \in DOMAIN KdubBinarySource
  /\ arch = "aarch64" => Alone
  /\ \E d \in Sticks : proc' =
       [proc EXCEPT ![p] = [Idle EXCEPT !.step = KdubBinarySource[arch], !.stick = d]]
  /\ UNCHANGED <<sticks, cache, flash>>
-----------------------------------------------------------------------------
(* download_and_verify_kdub_binary.  Nothing that an earlier run left in   *)
(* the cache is used.                                                      *)

CreateArchive(p) ==
  /\ Done(p, "get")
  /\ archive' = "torn"
  /\ UNCHANGED <<sticks, arch, binary, flash>>

\* Up to 50 MB of whatever the server sends; of more nothing is kept.
DownloadArchive(p) ==
  \/ /\ Done(p, "fill")
     /\ archive' \in {"torn", "signed", "not signed"}
     /\ UNCHANGED <<sticks, arch, binary, flash>>
  \/ /\ At(p, "fill") /\ Goto(p, "idle")
     /\ archive' = "absent"
     /\ UNCHANGED <<sticks, arch, binary, flash>>

\* Mutant: an archive without a good signature is only reported.
VerifyArchiveWarns(p) ==
  /\ Done(p, "verify")
  /\ UNCHANGED <<sticks, cache, flash>>

\* The archive is signed with the release key, for whatever version and platform: the
\* signature is bound to no name.  Without it the file goes.
VerifyArchive(p) ==
  \/ /\ Done(p, "verify") /\ archive = "signed"
     /\ UNCHANGED <<sticks, cache, flash>>
  \/ /\ At(p, "verify") /\ archive # "signed" /\ Goto(p, "idle")
     /\ archive' = "absent"
     /\ UNCHANGED <<sticks, arch, binary, flash>>

\* The archive is opened again and its `kdub` unpacked over the one in the cache.
ExtractBinary(p) ==
  /\ Done(p, "extract") /\ archive # "absent"
  /\ binary' = "torn"
  /\ UNCHANGED <<sticks, arch, archive, flash>>

UnpackBinary(p) ==
  /\ Done(p, "unpack")
  /\ binary' = IF archive = "signed" THEN "kdub" ELSE "other"
  /\ archive' \in {"absent", archive}
  /\ UNCHANGED <<sticks, arch, flash>>
-----------------------------------------------------------------------------

CheckTools(p) ==
  /\ Done(p, "tools")
  /\ UNCHANGED <<sticks, cache, flash>>

\* sgdisk, parted and fatresize on the whole stick.  mkpart appends a partition
\* up to the end of the stick, which fails when there is one already; the
\* partition it made is the last one, whose type is set next.
Partition(p, w) ==
  LET d == proc[p].stick IN
  /\ Done(p, w)
  /\ w = "part" => "part" \notin disk[d]
  /\ disk' = [disk EXCEPT ![d] = @ \cup {w}]
  /\ UNCHANGED <<mapper, mounted, created, cache, flash>>

LuksFormat(p) ==
  LET d == proc[p].stick IN
  /\ Done(p, "luks") /\ mapper # d
  /\ disk' = [disk EXCEPT ![d] = (@ \ ({"fs"} \cup Content)) \cup {"luks"}]
  /\ UNCHANGED <<mapper, mounted, created, cache, flash>>

LuksOpen(p) ==          \* fails while the name is in use
  /\ Done(p, "open") /\ mapper = NoStick
  /\ mapper' = proc[p].stick
  /\ UNCHANGED <<disk, mounted, created, cache, flash>>

\* From here on the commands work on the mapper name and the temporary directory.
Mkfs(p) ==
  /\ Done(p, "mkfs") /\ mapper # NoStick /\ ~mounted
  /\ disk' = [disk EXCEPT ![mapper] = (@ \ Content) \cup {"fs"}]
  /\ UNCHANGED <<mapper, mounted, created, cache, flash>>

Mount(p) ==
  /\ Done(p, "mount") /\ mapper # NoStick /\ ~mounted
  /\ mounted' = TRUE
  /\ UNCHANGED <<disk, mapper, created, cache, flash>>

Fill(p, w, done) ==
  /\ Done(p, w) /\ mounted
  /\ disk' = [disk EXCEPT ![mapper] = @ \cup done]
  /\ UNCHANGED <<mapper, mounted, created, cache, flash>>

SetupPersistenceLayout(p) == Fill(p, "layout", {"layout"})
\* The kdub binary is the one that runs, or else the one in the cache.
PopulatePersistence(p) ==
  Fill(p, "files", {"files"} \cup (IF arch = "x86_64" \/ binary = "kdub" THEN {"kdub"} ELSE {}))
TightenPermissions(p) == Fill(p, "tight", {"tight"})        \* chmod 770, chown root

\* Mutant: success is reported before the volume is locked.
UmountReports(p) ==
  /\ Done(p, "umount") /\ mounted
  /\ mounted' = FALSE
  /\ created' = IF proc[p].failed = {} THEN created \cup {proc[p].stick} ELSE created
  /\ UNCHANGED <<disk, mapper, cache, flash>>

Umount(p) ==
  /\ Done(p, "umount") /\ mounted
  /\ mounted' = FALSE
  /\ UNCHANGED <<disk, mapper, created, cache, flash>>

\* The temporary directory goes out of scope and removes all it can in it: with
\* the file system still mounted, that is what has been written to the stick.
Drop(p) ==
  /\ Done(p, "drop")
  /\ \/ UNCHANGED disk
     \/ /\ mounted
        /\ \E lost \in SUBSET Content : disk' = [disk EXCEPT ![mapper] = @ \ lost]
  /\ UNCHANGED <<mapper, mounted, created, cache, flash>>

\* Mutant: the volume is locked although it is still mounted.
LuksCloseMounted(p) ==
  /\ Done(p, "close")
  /\ mapper' = NoStick
  /\ created' = IF proc[p].failed = {} THEN created \cup {proc[p].stick} ELSE created
  /\ UNCHANGED <<disk, mounted, cache, flash>>

LuksClose(p) ==
  /\ Done(p, "close") /\ ~mounted
  /\ mapper' = NoStick
  /\ created' = IF proc[p].failed = {} THEN created \cup {proc[p].stick} ELSE created
  /\ UNCHANGED <<disk, mounted, cache, flash>>

\* A command fails.  The chmod is best effort, so its failure is not one of the run.
Fail(p, step) ==
  /\ At(p, step)
  /\ \/ OnFailure[step] = "idle" /\ Goto(p, "idle")
     \/ /\ OnFailure[step] # "idle"
        /\ proc' = [proc EXCEPT ![p] = [@ EXCEPT
             !.step = OnFailure[step], !.failed = proc[p].failed \cup ({step} \ {"tight"})]]
  /\ UNCHANGED <<sticks, cache, flash>>

Kill(p) ==
  /\ proc[p] # Idle
  /\ Goto(p, "idle")
  /\ UNCHANGED <<sticks, cache, flash>>
-----------------------------------------------------------------------------
\* The owner follows the advice after a failure: umount and luksClose by hand.
TidyUp ==
  /\ Alone /\ mapper # NoStick
  /\ mapper' = NoStick /\ mounted' = FALSE
  /\ UNCHANGED <<disk, proc, created, cache, flash>>

\* `tails flash` lists the sticks and accepts one on which nothing is mounted.  It does
\* not ask whether the stick is being partitioned or unlocked.
ValidateFlashTarget(d) ==
  /\ ~(mounted /\ mapper = d)
  /\ target' = target \cup {d}
  /\ flashes < MaxFlashes /\ flashes' = flashes + 1
  /\ UNCHANGED <<sticks, proc, cache, spoilt>>

\* After the prompts, however long they take, it writes the image over the whole stick,
\* in pieces; a run may have begun on the stick, or mounted it, by then.
WriteImage(d) ==
  /\ d \in target
  /\ disk' = [disk EXCEPT ![d] = {}]
  /\ created' = created \ {d}
  /\ spoilt' = IF d \in Busy THEN spoilt \cup {d} ELSE spoilt \ {d}
  /\ UNCHANGED <<mapper, mounted, proc, cache, target, flashes>>

\* It is done, not confirmed, or killed.
EndFlash(d) ==
  /\ d \in target /\ target' = target \ {d}
  /\ UNCHANGED <<sticks, proc, cache, spoilt, flashes>>

Fetch(p) ==
  \/ CreateArchive(p) \/ DownloadArchive(p) \/ VerifyArchive(p)
  \/ ExtractBinary(p) \/ UnpackBinary(p)

Command(p) ==
  \/ Fetch(p) \/ CheckTools(p)
  \/ \E w \in {"guid", "resize", "fat", "part", "type"} : Partition(p, w)
  \/ LuksFormat(p) \/ LuksOpen(p) \/ Mkfs(p) \/ Mount(p)
  \/ SetupPersistenceLayout(p) \/ PopulatePersistence(p) \/ TightenPermissions(p)
  \/ Umount(p) \/ Drop(p) \/ LuksClose(p)

MayFail == DOMAIN OnFailure

Next ==
  \/ \E p \in Procs : Begin(p) \/ Command(p) \/ Kill(p)
  \/ \E p \in Procs, step \in MayFail : Fail(p, step)
  \/ TidyUp
  \/ \E d \in Sticks : ValidateFlashTarget(d) \/ WriteImage(d) \/ EndFlash(d)

Spec == Init /\ [][Next]_vars
-----------------------------------------------------------------------------
\* The type of every variable; only an unlocked volume is mounted.
TypeOK ==
  /\ disk \in [Sticks -> SUBSET Work]
  /\ mapper \in Sticks \cup {NoStick}
  /\ mounted \in BOOLEAN /\ (mounted => mapper # NoStick)
  /\ proc \in [Procs -> [step : DOMAIN After \cup {"idle"}, stick : Sticks \cup {NoStick},
                         failed : SUBSET MayFail]]
  /\ created \in SUBSET Sticks /\ target \in SUBSET Sticks /\ spoilt \in SUBSET Sticks
  /\ flashes \in 0..MaxFlashes
  /\ arch \in Archs
  /\ archive \in {"absent", "torn", "signed", "not signed"}
  /\ binary \in {"absent", "torn", "kdub", "other"}

\* A stick reported as created has everything Tails looks for and a kdub that was signed
\* (download_and_verify_kdub_binary), whatever earlier runs left in the cache; and no
\* later run of `tails persist`, on that stick or another, takes any of it away.  What
\* validate_flash_target allows limits it: of a stick that was flashed under a run
\* nothing is promised until it is flashed again.
CreatedStaysComplete == \A d \in created \ spoilt : Required \subseteq disk[d]

\* A run that has opened the volume works on its own stick although the mapper
\* name is the same for all: whoever is between luks_open and luks_close owns it.
OwnVolume ==
  \A p \in Procs :
    proc[p].step \in {"mkfs", "mount", "layout", "files", "tight", "umount", "drop", "close"}
      => mapper = proc[p].stick

\* The promise PersistentStick states about sticks: reported only when complete, unmounted
\* and locked (create_persistent_storage prints after luks_close), left alone by every
\* later run, its file system written only while it is unlocked; but for a stick that was
\* flashed under a run.
Stick == INSTANCE PersistentStick WITH
  Inside <- Content \cup {"fs"}, content <- disk, unlocked <- mapper, ready <- created,
  busy <- Busy
StickKept == Stick!Spec

\* A stick is reported as created only once it is unmounted and locked again.
LockedWhenCreated ==
  [][\A d \in created' \ created : mapper' # d /\ ~mounted']_vars

\* luks_close finds the volume unmounted, so that it can lock it, after every
\* failure but those of setup_persistence_layout and of umount itself.
UnmountedAtClose ==
  \A p \in Procs : At(p, "close") /\ proc[p].failed \cap {"layout", "umount"} = {}
    => ~mounted
=============================================================================
