------------------------------ MODULE IsoCache ------------------------------
(***************************************************************************)
(* The cache of Tails images: `tails download` fills it, `tails flash`     *)
(* writes an image of it to a USB stick.  Names in the cache directory     *)
(* lead to inodes, so that a file that is renamed, replaced or removed     *)
(* while a process has it open is what it is on Unix.  An image is a few   *)
(* blocks; the release server and the mirrors are external.                *)
(***************************************************************************)
EXTENDS Naturals, Sequences

CONSTANTS
  Downloaders,   \* processes running `tails download`
  Flashers,      \* processes running `tails flash`
  MaxVersion,    \* bound: Tails releases
  Blocks,        \* bound: blocks of an image
  Inodes         \* bound: files that exist at the same time

ASSUME ProcAssumption == Downloaders \cap Flashers = {}
ASSUME VersionAssumption == MaxVersion \in Nat \ {0}
ASSUME BlockAssumption == Blocks \in Nat \ {0}
ASSUME InodeAssumption == Inodes \in Nat \ {0}

Versions == 1..MaxVersion
Procs == Downloaders \cup Flashers

\* A block was never written, has the bytes of a release, or wrong ones.
None == 0
Wrong == MaxVersion + 1
Contents == [1..Blocks -> 0..Wrong]
Empty == [b \in 1..Blocks |-> None]
Genuine(c, v) == \A b \in 1..Blocks : c[b] = v

VARIABLES
  server,    \* the latest release
  data,      \* content of each inode
  img,       \* inode of tails-amd64-VERSION.img, 0 when there is no such file
  part,      \* inode of tails-amd64-VERSION.img.part
  proc,      \* what each process is doing
  stick,     \* what is on the USB stick
  flashed    \* was its last flash reported as done

vars == <<server, data, img, part, proc, stick, flashed>>

Idle == [step |-> "idle", version |-> 1, target |-> 1, fd |-> 0, block |-> 1]

Init ==
  /\ server = 1
  /\ data = [i \in 1..Inodes |-> Empty]
  /\ img = [v \in Versions |-> 0] /\ part = [v \in Versions |-> 0]
  /\ proc = [p \in Procs |-> Idle]
  /\ stick = Empty /\ flashed = FALSE

At(p, step) == proc[p].step = step
Goto(p, step) == proc' = [proc EXCEPT ![p].step = step]
End(p) == proc' = [proc EXCEPT ![p] = Idle]

\* An inode is free when no name and no open file leads to it.
InUse == {img[v] : v \in Versions} \cup {part[v] : v \in Versions} \cup {proc[p].fd : p \in Procs}
Free == {i \in 1..Inodes : i \notin InUse}

PublishRelease ==
  /\ server < MaxVersion
  /\ server' = server + 1
  /\ UNCHANGED <<data, img, part, proc, stick, flashed>>
-----------------------------------------------------------------------------
(* latest.json.  An installation has a version, and for each kind of medium *)
(* a file; what counts of the entries for a file, URL and SHA-256, is of   *)
(* which release it is, which may not be that version.                     *)

Paths(file) ==
  {<<[type |-> "iso", file |-> None]>>,
   <<[type |-> "iso", file |-> None], [type |-> "img", file |-> file]>>}

Documents ==
  {<<>>} \cup {<<[version |-> server, paths |-> paths]>> :
                 paths \in UNION {Paths(file) : file \in Versions}}

\* Mutant: the first file is taken, of whatever type.
ParseLatestJsonAnyPath(doc) ==
  IF doc = <<>> THEN {}
  ELSE {[version |-> doc[1].version, target |-> doc[1].paths[1].file]}

\* parse_latest_json: the USB image of the first installation; without one, an error.
ParseLatestJson(doc) ==
  LET usb == {i \in DOMAIN doc[1].paths : doc[1].paths[i].type = "img"}
      first == CHOOSE i \in usb : \A j \in usb : i <= j
  IN  IF doc = <<>> \/ usb = {} THEN {}
      ELSE {[version |-> doc[1].version, target |-> doc[1].paths[first].file]}

\* download_tails_iso: the release, then the cached image, which is good enough
\* when its SHA-256 is right, unless --force was given.
FetchRelease(p) ==
  /\ At(p, "idle")
  /\ \E doc \in Documents : \E release \in ParseLatestJson(doc), step \in {"cached", "get"} :
       proc' = [proc EXCEPT ![p] = [@ EXCEPT !.step = step, !.version = release.version,
                                             !.target = release.target]]
  /\ UNCHANGED <<server, data, img, part, stick, flashed>>

CheckCached(p) ==
  LET v == proc[p].version IN
  /\ At(p, "cached")
  /\ IF img[v] # 0 /\ Genuine(data[img[v]], proc[p].target) THEN End(p) ELSE Goto(p, "get")
  /\ UNCHANGED <<server, data, img, part, stick, flashed>>

\* File::create empties the .part file that is there, or makes a new one.
CreatePart(p) ==
  LET v == proc[p].version IN
  /\ At(p, "get")
  /\ \E i \in 1..Inodes :
       /\ IF part[v] # 0 THEN i = part[v] ELSE i \in Free /\ \A j \in Free : i <= j
       /\ data' = [data EXCEPT ![i] = Empty]
       /\ part' = [part EXCEPT ![v] = i]
       /\ proc' = [proc EXCEPT ![p] = [@ EXCEPT !.step = "write", !.fd = i]]
  /\ UNCHANGED <<server, img, stick, flashed>>

\* The next bytes of the response, up to its end.  They may be wrong, and a block stands
\* for all that is in its place: a response that goes on after the last one leaves a wrong
\* file, as does one with a wrong last block.
WriteBlock(p) ==
  /\ At(p, "write") /\ proc[p].block <= Blocks
  /\ \E c \in {proc[p].target, Wrong} :
       data' = [data EXCEPT ![proc[p].fd][proc[p].block] = c]
  /\ proc' = [proc EXCEPT ![p].block = @ + 1]
  /\ UNCHANGED <<server, img, part, stick, flashed>>

\* The response ends, perhaps early, and the signature file is fetched.
EndOfResponse(p) ==
  /\ At(p, "write")
  /\ proc' = [proc EXCEPT ![p] = [@ EXCEPT !.step = "open", !.fd = 0, !.block = 1]]
  /\ UNCHANGED <<server, data, img, part, stick, flashed>>

OpenPart(p) ==
  LET i == part[proc[p].version] IN
  /\ At(p, "open")
  /\ proc' = [proc EXCEPT ![p] = [@ EXCEPT !.step = IF i # 0 THEN "sha256" ELSE "discard",
                                           !.fd = i]]
  /\ UNCHANGED <<server, data, img, part, stick, flashed>>

\* What latest.json said of the file is not needed any more after the first check.
Check(p, good, step) ==
  /\ \/ good /\ proc' = [proc EXCEPT ![p] = [@ EXCEPT !.step = step, !.target = Idle.target]]
     \/ ~good /\ proc' = [proc EXCEPT ![p] = [@ EXCEPT !.step = "discard", !.target = Idle.target,
                                                       !.fd = 0]]
  /\ UNCHANGED <<server, data, img, part, stick, flashed>>

\* The SHA-256 of the mapped file is the one latest.json gives for it.
CheckSha(p) ==
  At(p, "sha256") /\ Check(p, Genuine(data[proc[p].fd], proc[p].target), "signature")

\* Mutant: what has the right SHA-256 is not looked at any more.
CheckSignatureNot(p) == At(p, "signature") /\ Check(p, TRUE, "rename")

\* The PGP signature of that version is one of the file.
CheckSignature(p) ==
  At(p, "signature") /\ Check(p, Genuine(data[proc[p].fd], proc[p].version), "rename")

\* The rename goes by name: it takes whatever file is called .part by now.
Rename(p) ==
  LET v == proc[p].version IN
  /\ At(p, "rename")
  /\ \/ /\ part[v] # 0
        /\ img' = [img EXCEPT ![v] = part[v]] /\ part' = [part EXCEPT ![v] = 0]
        /\ proc' = [proc EXCEPT ![p] = [@ EXCEPT !.step = "cleanup", !.fd = 0]]
     \/ /\ part[v] = 0
        /\ proc' = [proc EXCEPT ![p] = [@ EXCEPT !.step = "discard", !.fd = 0]]
        /\ UNCHANGED <<img, part>>
  /\ UNCHANGED <<server, data, stick, flashed>>

Discard(p) ==           \* remove_file of .part; the download has failed
  /\ At(p, "discard")
  /\ \/ part' = [part EXCEPT ![proc[p].version] = 0]
     \/ UNCHANGED part
  /\ End(p)
  /\ UNCHANGED <<server, data, img, stick, flashed>>

\* Every other image goes, one by one; one that cannot be removed stays.
CleanupOldVersions(p) ==
  /\ At(p, "cleanup")
  /\ \E stay \in SUBSET Versions :
       img' = [v \in Versions |-> IF v \in stay \cup {proc[p].version} THEN img[v] ELSE 0]
  /\ End(p)
  /\ UNCHANGED <<server, data, part, stick, flashed>>
-----------------------------------------------------------------------------
\* run_flash: find_cached_iso (which of several images is the newest is left
\* open), the prompts, then the image is opened by its name and copied.
FindImage(p) ==
  /\ At(p, "idle")
  /\ \E v \in Versions :
       /\ img[v] # 0
       /\ proc' = [proc EXCEPT ![p] = [@ EXCEPT !.step = "prompt", !.version = v]]
  /\ UNCHANGED <<server, data, img, part, stick, flashed>>

OpenImage(p) ==
  LET i == img[proc[p].version] IN
  /\ At(p, "prompt") /\ i # 0
  /\ proc' = [proc EXCEPT ![p] = [@ EXCEPT !.step = "copy", !.fd = i]]
  /\ UNCHANGED <<server, data, img, part, stick, flashed>>

CopyBlock(p) ==
  LET b == proc[p].block IN
  /\ At(p, "copy") /\ b <= Blocks
  /\ stick' = [stick EXCEPT ![b] = data[proc[p].fd][b]]
  /\ flashed' = FALSE
  /\ proc' = [proc EXCEPT ![p].block = @ + 1]
  /\ UNCHANGED <<server, data, img, part>>

\* Mutant: a short copy counts as done.
SyncAllShort(p) ==
  /\ At(p, "copy")
  /\ flashed' = TRUE
  /\ End(p)
  /\ UNCHANGED <<server, data, img, part, stick>>

SyncAll(p) ==
  /\ At(p, "copy") /\ proc[p].block > Blocks
  /\ flashed' = TRUE
  /\ End(p)
  /\ UNCHANGED <<server, data, img, part, stick>>

\* A process is killed, or stops on an error it does not clean up after.
Abort(p) ==
  /\ proc[p] # Idle
  /\ End(p)
  /\ UNCHANGED <<server, data, img, part, stick, flashed>>
-----------------------------------------------------------------------------
Download(p) ==
  \/ FetchRelease(p) \/ CheckCached(p) \/ CreatePart(p) \/ WriteBlock(p)
  \/ EndOfResponse(p) \/ OpenPart(p) \/ CheckSha(p) \/ CheckSignature(p)
  \/ Rename(p) \/ Discard(p) \/ CleanupOldVersions(p)

FlashStep(p) == FindImage(p) \/ OpenImage(p) \/ CopyBlock(p) \/ SyncAll(p)

Next ==
  \/ PublishRelease
  \/ \E p \in Downloaders : Download(p)
  \/ \E p \in Flashers : FlashStep(p)
  \/ \E p \in Procs : Abort(p)

Spec == Init /\ [][Next]_vars
-----------------------------------------------------------------------------
\* The type of every variable; a download waits for the file of some release, never for
\* a file of another kind (parse_latest_json).
TypeOK ==
  /\ server \in Versions
  /\ data \in [1..Inodes -> Contents]
  /\ img \in [Versions -> 0..Inodes] /\ part \in [Versions -> 0..Inodes]
  /\ proc \in [Procs ->
       [step : {"idle", "cached", "get", "write", "open", "sha256", "signature", "rename",
                "discard", "cleanup", "prompt", "copy"},
        version : Versions, target : Versions, fd : 0..Inodes, block : 1..(Blocks + 1)]]
  /\ stick \in Contents /\ flashed \in BOOLEAN

\* Every .img file in the cache is a genuine image of its version, at any moment of a
\* download, also of one that died, and whatever latest.json says (download_tails_iso
\* verifies the .part file before it is renamed, "no other file descriptor to this path
\* is open").
CachedIsGenuine == \A v \in Versions : img[v] # 0 => Genuine(data[img[v]], v)

\* What the cache has of a release, and what is on the stick.
CacheHas(v) ==
  IF img[v] = 0 THEN "absent" ELSE IF Genuine(data[img[v]], v) THEN "genuine" ELSE "spoilt"
StickHas == IF \A b \in 1..Blocks : stick[b] = stick[1] THEN stick[1] ELSE Wrong

\* The promise ImageStore states about images: besides, that what a flash reports is the
\* release it took from the cache, and that the cache, once filled, never runs empty
\* (download_tails_iso renames the new image before cleanup_old_versions, which keeps it).
Store == INSTANCE ImageStore WITH
  released <- server, image <- [v \in Versions |-> CacheHas(v)],
  taken <- {proc[p].version : p \in {f \in Flashers : At(f, "copy")}},
  written <- IF flashed THEN StickHas ELSE 0
StoreKept == Store!Spec

\* A flash that was reported as done put a genuine image on the stick, although the
\* image is not verified again and a download may replace or remove it meanwhile.
FlashedIsGenuine == flashed => \E v \in Versions : Genuine(stick, v)
=============================================================================
