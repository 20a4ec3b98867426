-------------------------- MODULE TailsFlash_proofs --------------------------
(***************************************************************************)
(* Proofs about the two halves of `tails flash`: the cache its image comes *)
(* from (IsoCache, any number of releases, blocks and inodes) and the      *)
(* choice of its stick (FlashTarget, any tree of block devices).           *)
(*                                                                         *)
(* The cache is sound with any number of downloads and flashes at once, as *)
(* long as no two downloads are of the same release; what is on the stick  *)
(* is, when one flash at a time writes it.  The invariant says which       *)
(* inodes a name or a process may lead to, and what is known of the data   *)
(* in them.                                                                *)
(*                                                                         *)
(* The listing of a disk is recursive, so what it computes is proved by    *)
(* induction on the number of the block device: inside a device only those *)
(* with greater numbers are found.  The invariant says that what the owner *)
(* has yet to do takes down all that is left, every container after what   *)
(* is in it.                                                               *)
(***************************************************************************)
EXTENDS IsoCache, FlashTarget, WellFoundedInduction, SequenceTheorems, TLAPS

\* No two downloads of one release run at once: they would share the .part file.
OnePerRelease ==
  \A p, q \in Downloaders :
    p # q /\ ~At(p, "idle") /\ ~At(q, "idle") => proc[p].version # proc[q].version
\* One flash at a time: there is one stick.
OneFlash == \A p, q \in Flashers : p = q
\* One download at a time.
OneDownload == \A p, q \in Downloaders : p = q

\* Every file has one name.
Names ==
  /\ \A v, w \in Versions : img[v] # 0 => img[v] # part[w]
  /\ \A v, w \in Versions : part[v] # 0 /\ part[v] = part[w] => v = w

\* From its creation to its renaming a download has the .part file open, and after the
\* checks it is a genuine image.
HasPart == {"write", "sha256", "signature", "rename"}
DownloadInv(p) ==
  /\ proc[p].step \notin {"prompt", "copy"}
  /\ proc[p].step \in HasPart => proc[p].fd # 0 /\ part[proc[p].version] = proc[p].fd
  /\ At(p, "rename") => Genuine(data[proc[p].fd], proc[p].version)

\* A flash has a genuine image open, which nobody writes.
FlashInv(p) ==
  /\ proc[p].step \in {"idle", "prompt", "copy"}
  /\ proc[p].step # "copy" => proc[p].block = 1
  /\ At(p, "copy") =>
       /\ proc[p].fd # 0
       /\ \A v \in Versions : part[v] # proc[p].fd
       /\ Genuine(data[proc[p].fd], proc[p].version)

IsoInv ==
  /\ TypeOK /\ Names /\ CachedIsGenuine
  /\ \A p \in Downloaders : DownloadInv(p)
  /\ \A p \in Flashers : FlashInv(p)

\* A flash has copied the first blocks of its image.
CopiedInv(p) ==
  At(p, "copy") => \A b \in 1..Blocks : b < proc[p].block => stick[b] = proc[p].version
StickInv == FlashedIsGenuine /\ \A p \in Flashers : CopiedInv(p)
-----------------------------------------------------------------------------
\* What latest.json says is of releases.
LEMMA Parsed ==
  ASSUME NEW doc \in Documents, NEW release \in ParseLatestJson(doc), server \in Versions
  PROVE  release.version \in Versions /\ release.target \in Versions
<1> DEFINE paths == doc[1].paths
<1> DEFINE usb == {i \in DOMAIN paths : paths[i].type = "img"}
<1> DEFINE first == CHOOSE i \in usb : \A j \in usb : i <= j
<1>1. /\ doc # <<>> /\ usb # {}
      /\ release = [version |-> doc[1].version, target |-> paths[first].file]
  BY DEF ParseLatestJson
<1>2. PICK file \in Versions :
        \E p \in Paths(file) : doc = <<[version |-> server, paths |-> p]>>
  BY <1>1 DEF Documents
<1>3. doc[1].version = server /\ paths \in Paths(file)
  BY <1>2
<1> HIDE DEF paths
<1>4. CASE paths = <<[type |-> "iso", file |-> None]>>
  BY <1>1, <1>4
<1>5. CASE paths = <<[type |-> "iso", file |-> None], [type |-> "img", file |-> file]>>
  <2>1. usb = {2}
    BY <1>5
  <2>2. first = 2
    BY <2>1
  <2>3. paths[first].file = file
    BY <1>5, <2>2
  <2> QED BY <1>1, <1>2, <1>3, <2>3
<1> QED BY <1>3, <1>4, <1>5 DEF Paths

\* At first there are no files and nobody does anything.
LEMMA IsoInit == Init => IsoInv
<1> SUFFICES ASSUME Init PROVE IsoInv
  OBVIOUS
<1>1. 1 \in Versions /\ Empty \in Contents
  BY VersionAssumption DEF Versions, Empty, None, Wrong, Contents
<1>2. TypeOK
  <2>1. Idle \in [step : {"idle"}, version : Versions, target : Versions, fd : 0..Inodes,
                  block : 1..(Blocks + 1)]
    BY <1>1, InodeAssumption, BlockAssumption DEF Idle
  <2>2. proc \in [Procs -> [step : {"idle"}, version : Versions, target : Versions,
                            fd : 0..Inodes, block : 1..(Blocks + 1)]]
    BY <2>1 DEF Init
  <2>3. /\ server \in Versions /\ data \in [1..Inodes -> Contents]
        /\ stick \in Contents /\ flashed \in BOOLEAN
    BY <1>1 DEF Init
  <2>4. img \in [Versions -> 0..Inodes] /\ part \in [Versions -> 0..Inodes]
    BY InodeAssumption DEF Init
  <2> QED BY <2>2, <2>3, <2>4 DEF TypeOK
<1>3. Names /\ CachedIsGenuine
  BY <1>1 DEF Init, Names, CachedIsGenuine
<1>4. \A p \in Downloaders : DownloadInv(p)
  BY DEF Init, DownloadInv, HasPart, Idle, At, Procs
<1>5. \A p \in Flashers : FlashInv(p)
  BY DEF Init, FlashInv, Idle, At, Procs
<1> QED BY <1>2, <1>3, <1>4, <1>5 DEF IsoInv
-----------------------------------------------------------------------------
(* The frame of a step.  A step of p that leaves all files alone concerns  *)
(* nobody but p.                                                           *)

Process ==
  [step : {"idle", "cached", "get", "write", "open", "sha256", "signature", "rename",
           "discard", "cleanup", "prompt", "copy"},
   version : Versions, target : Versions, fd : 0..Inodes, block : 1..(Blocks + 1)]

\* Nobody but p does anything, and what p is doing now is q.
Only(p, q) ==
  /\ q \in Process /\ proc' \in [Procs -> Process] /\ proc'[p] = q
  /\ \A r \in Procs : r # p => proc'[r] = proc[r]

\* A download and a flash are not the same.
LEMMA Kinds ==
  /\ \A p \in Downloaders : p \in Procs /\ p \notin Flashers
  /\ \A p \in Flashers : p \in Procs /\ p \notin Downloaders
BY ProcAssumption DEF Procs

\* A process is of its type.
LEMMA Processes == ASSUME TypeOK, NEW p \in Procs PROVE proc[p] \in Process
BY DEF TypeOK, Process

\* A process that goes on.
LEMMA Moves ==
  ASSUME TypeOK, NEW p \in Procs, NEW q \in Process, proc' = [proc EXCEPT ![p] = q]
  PROVE  Only(p, q)
BY DEF TypeOK, Only, Process

\* A step of one process, which changes no file.
LEMMA OwnStep ==
  ASSUME IsoInv, NEW p \in Procs, NEW q, Only(p, q),
         UNCHANGED <<server, data, img, part>>, stick' \in Contents, flashed' \in BOOLEAN,
         p \in Downloaders => DownloadInv(p)', p \in Flashers => FlashInv(p)'
  PROVE  IsoInv'
<1>1. TypeOK'
  BY DEF IsoInv, TypeOK, Process, Only
<1>2. Names' /\ CachedIsGenuine'
  BY DEF IsoInv, Names, CachedIsGenuine, Genuine
<1>3. \A r \in Procs : r # p => proc'[r] = proc[r]
  BY DEF Only
<1>4. ASSUME NEW r \in Downloaders PROVE DownloadInv(r)'
  <2>1. CASE r = p
    BY <2>1
  <2>2. CASE r # p
    <3>1. proc'[r] = proc[r] /\ DownloadInv(r)
      BY <1>3, <2>2, Kinds DEF IsoInv
    <3> QED BY <3>1 DEF DownloadInv, At, Genuine
  <2> QED BY <2>1, <2>2
<1>5. ASSUME NEW r \in Flashers PROVE FlashInv(r)'
  <2>1. CASE r = p
    BY <2>1
  <2>2. CASE r # p
    <3>1. proc'[r] = proc[r] /\ FlashInv(r)
      BY <1>3, <2>2, Kinds DEF IsoInv
    <3> QED BY <3>1 DEF FlashInv, At, Genuine
  <2> QED BY <2>1, <2>2
<1> QED BY <1>1, <1>2, <1>4, <1>5 DEF IsoInv

\* The same for a step that leaves the stick alone, too.
LEMMA QuietStep ==
  ASSUME IsoInv, NEW p \in Procs, NEW q, Only(p, q),
         UNCHANGED <<server, data, img, part, stick, flashed>>,
         p \in Downloaders => DownloadInv(p)', p \in Flashers => FlashInv(p)'
  PROVE  IsoInv'
<1>1. stick' \in Contents /\ flashed' \in BOOLEAN
  BY DEF IsoInv, TypeOK
<1> QED BY <1>1, OwnStep

\* A process that ends.
LEMMA Ends ==
  ASSUME TypeOK, NEW p \in Procs, End(p)
  PROVE  Only(p, Idle)
<1>1. Idle \in Process
  BY VersionAssumption, InodeAssumption, BlockAssumption DEF Process, Idle, Versions
<1> QED BY <1>1, Moves DEF End

\* An idle process.
LEMMA IdleInv == ASSUME NEW p, NEW q, Only(p, q), q = Idle PROVE DownloadInv(p)' /\ FlashInv(p)'
BY DEF Only, DownloadInv, FlashInv, HasPart, At, Idle

\* Such an end keeps the invariant.
LEMMA EndsStep ==
  ASSUME IsoInv, NEW p \in Procs, End(p), UNCHANGED <<server, data, img, part>>,
         stick' \in Contents, flashed' \in BOOLEAN
  PROVE  IsoInv'
<1>1. Only(p, Idle)
  BY Ends DEF IsoInv
<1>2. DownloadInv(p)' /\ FlashInv(p)'
  BY <1>1, IdleInv
<1> QED BY <1>1, <1>2, OwnStep

\* A process that is killed.
LEMMA AbortStep == ASSUME IsoInv, NEW p \in Procs, Abort(p) PROVE IsoInv'
BY EndsStep DEF Abort, IsoInv, TypeOK

\* The release is fetched and may be cached.
LEMMA FetchStep == ASSUME IsoInv, NEW p \in Downloaders, FetchRelease(p) PROVE IsoInv'
<1>1. PICK doc \in Documents : \E release \in ParseLatestJson(doc), to \in {"cached", "get"} :
       proc' = [proc EXCEPT ![p] = [@ EXCEPT !.step = to, !.version = release.version,
                                             !.target = release.target]]
  BY DEF FetchRelease
<1>2. PICK release \in ParseLatestJson(doc), to \in {"cached", "get"} :
       proc' = [proc EXCEPT ![p] = [@ EXCEPT !.step = to, !.version = release.version,
                                             !.target = release.target]]
  BY <1>1
<1>3. release.version \in Versions /\ release.target \in Versions
  BY Parsed DEF IsoInv, TypeOK
<1> DEFINE q == [proc[p] EXCEPT !.step = to, !.version = release.version,
                                !.target = release.target]
<1>4. q \in Process /\ q.step \in {"cached", "get"}
  BY <1>3, Kinds, Processes DEF IsoInv, Process
<1>5. proc' = [proc EXCEPT ![p] = q]
  BY <1>2
<1> HIDE DEF q
<1>6. Only(p, q)
  BY <1>4, <1>5, Kinds, Moves DEF IsoInv
<1>7. DownloadInv(p)'
  BY <1>4, <1>6 DEF Only, DownloadInv, HasPart, At
<1> QED BY <1>6, <1>7, Kinds, QuietStep DEF FetchRelease

\* The cached image is looked at.
LEMMA CheckCachedStep == ASSUME IsoInv, NEW p \in Downloaders, CheckCached(p) PROVE IsoInv'
<1>1. CASE End(p)
  BY <1>1, Kinds, EndsStep DEF CheckCached, IsoInv, TypeOK
<1>2. CASE Goto(p, "get")
  <2> DEFINE q == [proc[p] EXCEPT !.step = "get"]
  <2>1. q \in Process /\ q.step = "get" /\ proc' = [proc EXCEPT ![p] = q]
    BY <1>2, Kinds, Processes DEF IsoInv, Process, Goto
  <2> HIDE DEF q
  <2>2. Only(p, q)
    BY <2>1, Kinds, Moves DEF IsoInv
  <2>3. DownloadInv(p)'
    BY <2>1, <2>2 DEF Only, DownloadInv, HasPart, At
  <2> QED BY <2>2, <2>3, Kinds, QuietStep DEF CheckCached
<1> QED BY <1>1, <1>2 DEF CheckCached

\* The response has ended.
LEMMA EndOfResponseStep == ASSUME IsoInv, NEW p \in Downloaders, EndOfResponse(p) PROVE IsoInv'
<1> DEFINE q == [proc[p] EXCEPT !.step = "open", !.fd = 0, !.block = 1]
<1>1. 0 \in 0..Inodes /\ 1 \in 1..(Blocks + 1)
  BY InodeAssumption, BlockAssumption
<1>2. q \in Process /\ q.step = "open"
  BY <1>1, Kinds, Processes DEF IsoInv, Process
<1>3. proc' = [proc EXCEPT ![p] = q]
  BY DEF EndOfResponse
<1> HIDE DEF q
<1>4. Only(p, q)
  BY <1>2, <1>3, Kinds, Moves DEF IsoInv
<1>5. DownloadInv(p)'
  BY <1>2, <1>4 DEF Only, DownloadInv, HasPart, At
<1> QED BY <1>4, <1>5, Kinds, QuietStep DEF EndOfResponse

\* The .part file is opened for the checks.
LEMMA OpenPartStep == ASSUME IsoInv, NEW p \in Downloaders, OpenPart(p) PROVE IsoInv'
<1> DEFINE i == part[proc[p].version]
<1> DEFINE q == [proc[p] EXCEPT !.step = IF i # 0 THEN "sha256" ELSE "discard", !.fd = i]
<1>1. i \in 0..Inodes /\ proc[p] \in Process
  BY Kinds, Processes DEF IsoInv, TypeOK, Process
<1>2. /\ q \in Process /\ q.fd = i /\ q.version = proc[p].version
      /\ q.step = IF i # 0 THEN "sha256" ELSE "discard"
  BY <1>1 DEF Process
<1>3. proc' = [proc EXCEPT ![p] = q]
  BY DEF OpenPart
<1> HIDE DEF q
<1>4. Only(p, q)
  BY <1>2, <1>3, Kinds, Moves DEF IsoInv
<1>5. DownloadInv(p)'
  BY <1>2, <1>4 DEF Only, DownloadInv, HasPart, At, OpenPart
<1> QED BY <1>4, <1>5, Kinds, QuietStep DEF OpenPart

\* A check that is passed says what it says of the file that is open.
LEMMA CheckStep ==
  ASSUME IsoInv, NEW p \in Downloaders, NEW good \in BOOLEAN, NEW to,
         Check(p, good, to), proc[p].step \in {"sha256", "signature"},
         \/ to = "signature"
         \/ to = "rename" /\ (good => Genuine(data[proc[p].fd], proc[p].version))
  PROVE  IsoInv'
<1>1. 0 \in 0..Inodes /\ Idle.target \in Versions /\ proc[p] \in Process /\ DownloadInv(p)
  BY InodeAssumption, VersionAssumption, Kinds, Processes DEF IsoInv, Idle, Versions
<1>2. UNCHANGED <<server, data, img, part, stick, flashed>>
  BY DEF Check
<1>3. CASE good /\ proc' = [proc EXCEPT ![p] = [@ EXCEPT !.step = to, !.target = Idle.target]]
  <2> DEFINE q == [proc[p] EXCEPT !.step = to, !.target = Idle.target]
  <2>1. to \in {"signature", "rename"}
    OBVIOUS
  <2>2. /\ q \in Process /\ q.step = to /\ q.version = proc[p].version /\ q.fd = proc[p].fd
    BY <1>1, <2>1 DEF Process
  <2>3. proc' = [proc EXCEPT ![p] = q]
    BY <1>3
  <2> HIDE DEF q
  <2>4. Only(p, q)
    BY <2>2, <2>3, Kinds, Moves DEF IsoInv
  <2>5. DownloadInv(p)'
    BY <1>1, <1>2, <1>3, <2>1, <2>2, <2>4 DEF Only, DownloadInv, HasPart, At, Genuine
  <2> QED BY <1>2, <2>4, <2>5, Kinds, QuietStep
<1>4. CASE proc' = [proc EXCEPT ![p] = [@ EXCEPT !.step = "discard", !.target = Idle.target,
                                                 !.fd = 0]]
  <2> DEFINE q == [proc[p] EXCEPT !.step = "discard", !.target = Idle.target, !.fd = 0]
  <2>1. q \in Process /\ q.step = "discard"
    BY <1>1 DEF Process
  <2>2. proc' = [proc EXCEPT ![p] = q]
    BY <1>4
  <2> HIDE DEF q
  <2>3. Only(p, q)
    BY <2>1, <2>2, Kinds, Moves DEF IsoInv
  <2>4. DownloadInv(p)'
    BY <2>1, <2>3 DEF Only, DownloadInv, HasPart, At
  <2> QED BY <1>2, <2>3, <2>4, Kinds, QuietStep
<1> QED BY <1>3, <1>4 DEF Check

\* A flash has found an image.
LEMMA FindImageStep == ASSUME IsoInv, NEW p \in Flashers, FindImage(p) PROVE IsoInv'
<1>1. PICK v \in Versions :
        proc' = [proc EXCEPT ![p] = [@ EXCEPT !.step = "prompt", !.version = v]]
  BY DEF FindImage
<1> DEFINE q == [proc[p] EXCEPT !.step = "prompt", !.version = v]
<1>2. q \in Process /\ q.step = "prompt" /\ q.block = proc[p].block
  BY Kinds, Processes DEF IsoInv, Process
<1>3. proc' = [proc EXCEPT ![p] = q]
  BY <1>1
<1> HIDE DEF q
<1>4. Only(p, q)
  BY <1>2, <1>3, Kinds, Moves DEF IsoInv
<1>5. FlashInv(p)'
  BY <1>2, <1>4 DEF Only, IsoInv, FlashInv, At, FindImage
<1> QED BY <1>4, <1>5, Kinds, QuietStep DEF FindImage

\* A flash opens the image by its name: that image is genuine.
LEMMA OpenImageStep == ASSUME IsoInv, NEW p \in Flashers, OpenImage(p) PROVE IsoInv'
<1> DEFINE v == proc[p].version
<1> DEFINE i == img[v]
<1> DEFINE q == [proc[p] EXCEPT !.step = "copy", !.fd = i]
<1>1. i \in 0..Inodes /\ i # 0 /\ v \in Versions /\ proc[p] \in Process
  BY Kinds, Processes DEF IsoInv, TypeOK, Process, OpenImage
<1>2. q \in Process /\ q.step = "copy" /\ q.version = v /\ q.fd = i
  BY <1>1 DEF Process
<1>3. proc' = [proc EXCEPT ![p] = q] /\ UNCHANGED <<server, data, img, part, stick, flashed>>
  BY DEF OpenImage
<1>4. Genuine(data[i], v) /\ \A w \in Versions : part[w] # i
  BY <1>1 DEF IsoInv, CachedIsGenuine, Names
<1> HIDE DEF q, v, i
<1>5. Only(p, q)
  BY <1>2, <1>3, Kinds, Moves DEF IsoInv
<1>6. FlashInv(p)'
  BY <1>1, <1>2, <1>3, <1>4, <1>5 DEF Only, FlashInv, At, Genuine
<1> QED BY <1>3, <1>5, <1>6, Kinds, QuietStep
-----------------------------------------------------------------------------
(* Steps of a download that change files.                                  *)

\* Other downloads are of other releases, and the flashes have files open that
\* are none of this download's business.
LEMMA FileStep ==
  ASSUME IsoInv, OnePerRelease, NEW p \in Downloaders, ~At(p, "idle"), NEW q, Only(p, q),
         TypeOK', Names', CachedIsGenuine', DownloadInv(p)',
         \A w \in Versions : w # proc[p].version =>
           part'[w] = part[w] /\ (part[w] # 0 => data'[part[w]] = data[part[w]]),
         \A r \in Flashers : At(r, "copy") =>
           (\A w \in Versions : part'[w] # proc[r].fd) /\ data'[proc[r].fd] = data[proc[r].fd]
  PROVE  IsoInv'
<1>1. \A r \in Procs : r # p => proc'[r] = proc[r]
  BY DEF Only
<1>2. ASSUME NEW r \in Downloaders, r # p PROVE DownloadInv(r)'
  <2>1. proc'[r] = proc[r] /\ DownloadInv(r)
    BY <1>1, <1>2, Kinds DEF IsoInv
  <2>2. CASE proc[r].step \in HasPart
    <3>1. ~At(r, "idle") /\ proc[r].version \in Versions
      BY <2>2, Kinds, Processes DEF HasPart, At, IsoInv, Process
    <3>2. proc[r].version # proc[p].version
      BY <1>2, <3>1 DEF OnePerRelease
    <3>3. proc[r].fd # 0 /\ part[proc[r].version] = proc[r].fd
      BY <2>1, <2>2 DEF DownloadInv
    <3>4. part'[proc[r].version] = proc[r].fd /\ data'[proc[r].fd] = data[proc[r].fd]
      BY <3>1, <3>2, <3>3
    <3> QED BY <2>1, <3>3, <3>4 DEF DownloadInv, At, Genuine
  <2>3. CASE proc[r].step \notin HasPart
    BY <2>1, <2>3 DEF DownloadInv, At, HasPart
  <2> QED BY <2>2, <2>3
<1>3. ASSUME NEW r \in Flashers PROVE FlashInv(r)'
  <2>1. proc'[r] = proc[r] /\ FlashInv(r)
    BY <1>1, <1>3, Kinds DEF IsoInv
  <2>2. At(r, "copy") =>
          (\A w \in Versions : part'[w] # proc[r].fd) /\ data'[proc[r].fd] = data[proc[r].fd]
    BY <1>3
  <2> QED BY <2>1, <2>2 DEF FlashInv, At, Genuine
<1>4. \A r \in Downloaders : DownloadInv(r)'
  BY <1>2
<1> QED BY <1>3, <1>4 DEF IsoInv

\* The file is made, or the one that is there emptied.
LEMMA CreatePartStep ==
  ASSUME IsoInv, OnePerRelease, NEW p \in Downloaders, CreatePart(p) PROVE IsoInv'
<1> DEFINE v == proc[p].version
<1>1. PICK i \in 1..Inodes :
        /\ IF part[v] # 0 THEN i = part[v] ELSE i \in Free /\ \A j \in Free : i <= j
        /\ data' = [data EXCEPT ![i] = Empty]
        /\ part' = [part EXCEPT ![v] = i]
        /\ proc' = [proc EXCEPT ![p] = [@ EXCEPT !.step = "write", !.fd = i]]
  BY DEF CreatePart
<1>2. /\ p \in Procs /\ v \in Versions /\ Empty \in Contents /\ i # 0 /\ i \in 0..Inodes
      /\ UNCHANGED <<server, img, stick, flashed>> /\ At(p, "get") /\ proc[p] \in Process
  <2>1. p \in Procs /\ proc[p] \in Process
    BY Kinds, Processes DEF IsoInv
  <2>2. Empty \in Contents
    BY VersionAssumption DEF Contents, Empty, None, Wrong
  <2>3. i # 0 /\ i \in 0..Inodes
    BY InodeAssumption
  <2>4. UNCHANGED <<server, img, stick, flashed>> /\ At(p, "get")
    BY DEF CreatePart
  <2> QED BY <2>1, <2>2, <2>3, <2>4 DEF Process
<1> DEFINE q == [proc[p] EXCEPT !.step = "write", !.fd = i]
<1>3. q \in Process /\ q.step = "write" /\ q.fd = i /\ q.version = v
  BY <1>2 DEF Process
<1>4. proc' = [proc EXCEPT ![p] = q]
  BY <1>1
<1> HIDE DEF q
<1>5. Only(p, q)
  BY <1>2, <1>3, <1>4, Moves DEF IsoInv
<1>6. data \in [1..Inodes -> Contents] /\ part \in [Versions -> 0..Inodes]
  BY DEF IsoInv, TypeOK
<1>7. part[v] = i \/ (part[v] = 0 /\ i \in Free)
  BY <1>1, <1>6
<1>8. /\ part' \in [Versions -> 0..Inodes] /\ part'[v] = i
      /\ \A w \in Versions : w # v => part'[w] = part[w]
  BY <1>1, <1>2, <1>6
<1>9. /\ data' \in [1..Inodes -> Contents] /\ data'[i] = Empty
      /\ \A j \in 1..Inodes : j # i => data'[j] = data[j]
  BY <1>1, <1>2, <1>6
<1> HIDE DEF v
<1>10. i \in Free =>
         /\ \A w \in Versions : img[w] # i /\ part[w] # i
         /\ \A r \in Procs : proc[r].fd # i
  BY DEF Free, InUse
<1>11. \A w \in Versions : img[w] # i
  BY <1>2, <1>7, <1>10 DEF IsoInv, Names
<1>12. \A w \in Versions : part[w] = i => w = v
  BY <1>2, <1>7, <1>10 DEF IsoInv, Names
<1>13. \A r \in Flashers : At(r, "copy") => proc[r].fd # i
  BY <1>2, <1>7, <1>10, Kinds DEF IsoInv, FlashInv
<1>14. TypeOK'
  BY <1>2, <1>5, <1>8, <1>9 DEF IsoInv, TypeOK, Only, Process
<1>15. Names'
  BY <1>2, <1>8, <1>11, <1>12 DEF IsoInv, Names
<1>16. CachedIsGenuine'
  <2>1. \A w \in Versions : img[w] \in 0..Inodes
    BY DEF IsoInv, TypeOK
  <2>2. \A w \in Versions : img[w] # 0 => data'[img[w]] = data[img[w]]
    BY <1>9, <1>11, <2>1, InodeAssumption
  <2> QED BY <1>2, <2>2 DEF IsoInv, CachedIsGenuine, Genuine
<1>17. DownloadInv(p)'
  BY <1>2, <1>3, <1>5, <1>8 DEF Only, DownloadInv, At
<1>18. ASSUME NEW w \in Versions, w # v
       PROVE  part'[w] = part[w] /\ (part[w] # 0 => data'[part[w]] = data[part[w]])
  <2>1. part'[w] = part[w] /\ part[w] # i /\ part[w] \in 0..Inodes
    BY <1>6, <1>8, <1>12, <1>18
  <2> QED BY <1>9, <2>1, InodeAssumption
<1>19. ASSUME NEW r \in Flashers, At(r, "copy")
       PROVE  (\A w \in Versions : part'[w] # proc[r].fd) /\ data'[proc[r].fd] = data[proc[r].fd]
  <2>1. proc[r].fd # 0 /\ \A w \in Versions : part[w] # proc[r].fd
    BY <1>19 DEF IsoInv, FlashInv
  <2>2. proc[r].fd # i /\ proc[r].fd \in 0..Inodes
    BY <1>13, <1>19, Kinds, Processes DEF IsoInv, Process
  <2> QED BY <1>8, <1>9, <2>1, <2>2, InodeAssumption
<1>20. ~At(p, "idle")
  BY <1>2 DEF At
<1> QED BY <1>5, <1>14, <1>15, <1>16, <1>17, <1>18, <1>19, <1>20, FileStep DEF v

\* What is written is the .part file only.
LEMMA WriteBlockStep ==
  ASSUME IsoInv, OnePerRelease, NEW p \in Downloaders, WriteBlock(p) PROVE IsoInv'
<1> DEFINE i == proc[p].fd
<1> DEFINE v == proc[p].version
<1> DEFINE b == proc[p].block
<1>1. PICK c \in {proc[p].target, Wrong} : data' = [data EXCEPT ![i][b] = c]
  BY DEF WriteBlock
<1>2. /\ p \in Procs /\ proc[p] \in Process /\ At(p, "write") /\ b <= Blocks
      /\ UNCHANGED <<server, img, part, stick, flashed>>
      /\ proc' = [proc EXCEPT ![p].block = b + 1]
  BY Kinds, Processes DEF IsoInv, WriteBlock
<1>3. i # 0 /\ part[v] = i
  BY <1>2 DEF IsoInv, DownloadInv, HasPart, At
<1>4. v \in Versions /\ i \in 1..Inodes /\ b \in 1..Blocks /\ b + 1 \in 1..(Blocks + 1)
  BY <1>2, <1>3, InodeAssumption, BlockAssumption DEF Process
<1>5. c \in 0..Wrong
  BY <1>1, <1>2, VersionAssumption DEF Process, Versions, Wrong
<1> DEFINE q == [proc[p] EXCEPT !.block = b + 1]
<1>6. q \in Process /\ q.step = "write" /\ q.fd = i /\ q.version = v
  BY <1>2, <1>4 DEF Process, At
<1>7. proc' = [proc EXCEPT ![p] = q]
  BY <1>2
<1> HIDE DEF q
<1>8. Only(p, q)
  BY <1>2, <1>6, <1>7, Moves DEF IsoInv
<1>9. data' \in [1..Inodes -> Contents] /\ \A j \in 1..Inodes : j # i => data'[j] = data[j]
  <2>1. data \in [1..Inodes -> Contents]
    BY DEF IsoInv, TypeOK
  <2> HIDE DEF i, b
  <2>2. [data[i] EXCEPT ![b] = c] \in Contents
    BY <1>4, <1>5, <2>1 DEF Contents
  <2> QED BY <1>1, <1>4, <2>1, <2>2
<1> HIDE DEF i, v, b
<1>10. TypeOK'
  BY <1>2, <1>8, <1>9 DEF IsoInv, TypeOK, Only, Process
<1>11. Names'
  BY <1>2 DEF IsoInv, Names
<1>12. \A w \in Versions : img[w] # i
  BY <1>3, <1>4 DEF IsoInv, Names
<1>13. CachedIsGenuine'
  <2>1. \A w \in Versions : img[w] \in 0..Inodes
    BY DEF IsoInv, TypeOK
  <2>2. \A w \in Versions : img[w] # 0 => data'[img[w]] = data[img[w]]
    BY <1>9, <1>12, <2>1, InodeAssumption
  <2> QED BY <1>2, <2>2 DEF IsoInv, CachedIsGenuine, Genuine
<1>14. DownloadInv(p)'
  BY <1>2, <1>3, <1>6, <1>8 DEF Only, DownloadInv, At
<1>15. ASSUME NEW w \in Versions, w # v
       PROVE  part'[w] = part[w] /\ (part[w] # 0 => data'[part[w]] = data[part[w]])
  <2>1. part[w] \in 0..Inodes
    BY DEF IsoInv, TypeOK
  <2>2. part[w] # 0 => part[w] # i
    BY <1>3, <1>4, <1>15 DEF IsoInv, Names
  <2> QED BY <1>2, <1>9, <2>1, <2>2, InodeAssumption
<1>16. ASSUME NEW r \in Flashers, At(r, "copy")
       PROVE  (\A w \in Versions : part'[w] # proc[r].fd) /\ data'[proc[r].fd] = data[proc[r].fd]
  <2>1. proc[r].fd # 0 /\ \A w \in Versions : part[w] # proc[r].fd
    BY <1>16 DEF IsoInv, FlashInv
  <2>2. proc[r].fd # i /\ proc[r].fd \in 0..Inodes
    BY <1>3, <1>4, <2>1, Kinds, Processes DEF IsoInv, Process
  <2> QED BY <1>2, <1>9, <2>1, <2>2, InodeAssumption
<1>17. ~At(p, "idle")
  BY <1>2 DEF At
<1> QED BY <1>8, <1>10, <1>11, <1>13, <1>14, <1>15, <1>16, <1>17, FileStep DEF v

\* Steps that change names, but nothing in the files: what is called .part after them
\* was called so before.
LEMMA NameStep ==
  ASSUME IsoInv, OnePerRelease, NEW p \in Downloaders, ~At(p, "idle"), NEW q, Only(p, q),
         img' \in [Versions -> 0..Inodes], part' \in [Versions -> 0..Inodes],
         UNCHANGED <<server, data, stick, flashed>>, Names', CachedIsGenuine', DownloadInv(p)',
         \A w \in Versions : w # proc[p].version => part'[w] = part[w],
         \A w \in Versions : part'[w] # 0 => part'[w] = part[w]
  PROVE  IsoInv'
<1>1. TypeOK'
  BY DEF IsoInv, TypeOK, Only, Process
<1>2. ASSUME NEW r \in Flashers, At(r, "copy")
      PROVE  (\A w \in Versions : part'[w] # proc[r].fd) /\ data'[proc[r].fd] = data[proc[r].fd]
  BY <1>2 DEF IsoInv, FlashInv
<1> QED BY <1>1, <1>2, FileStep

\* The rename takes the file that has been checked.
LEMMA RenameStep ==
  ASSUME IsoInv, OnePerRelease, NEW p \in Downloaders, Rename(p) PROVE IsoInv'
<1> DEFINE v == proc[p].version
<1>1. /\ p \in Procs /\ proc[p] \in Process /\ v \in Versions /\ 0 \in 0..Inodes
      /\ At(p, "rename") /\ UNCHANGED <<server, data, stick, flashed>>
  BY Kinds, Processes, InodeAssumption DEF IsoInv, Process, Rename
<1>2. part[v] = proc[p].fd /\ part[v] # 0 /\ Genuine(data[part[v]], v)
  BY <1>1 DEF At, IsoInv, DownloadInv, HasPart
<1>3. /\ img' = [img EXCEPT ![v] = part[v]] /\ part' = [part EXCEPT ![v] = 0]
      /\ proc' = [proc EXCEPT ![p] = [@ EXCEPT !.step = "cleanup", !.fd = 0]]
  BY <1>2 DEF Rename
<1> DEFINE q == [proc[p] EXCEPT !.step = "cleanup", !.fd = 0]
<1>4. q \in Process /\ q.step = "cleanup"
  BY <1>1 DEF Process
<1>5. proc' = [proc EXCEPT ![p] = q]
  BY <1>3
<1> HIDE DEF q
<1>6. Only(p, q)
  BY <1>1, <1>4, <1>5, Moves DEF IsoInv
<1>7. /\ img' \in [Versions -> 0..Inodes] /\ part' \in [Versions -> 0..Inodes]
      /\ img'[v] = part[v] /\ part'[v] = 0
      /\ \A w \in Versions : w # v => img'[w] = img[w] /\ part'[w] = part[w]
  BY <1>1, <1>3 DEF IsoInv, TypeOK
<1> HIDE DEF v
<1>8. Names'
  BY <1>1, <1>2, <1>7 DEF IsoInv, Names
<1>9. CachedIsGenuine'
  BY <1>1, <1>2, <1>7 DEF IsoInv, CachedIsGenuine, Genuine
<1>10. DownloadInv(p)'
  BY <1>4, <1>6 DEF Only, DownloadInv, HasPart, At
<1>11. \A w \in Versions : part'[w] # 0 => part'[w] = part[w]
  BY <1>7
<1>12. ~At(p, "idle")
  BY <1>1 DEF At
<1> QED BY <1>1, <1>6, <1>7, <1>8, <1>9, <1>10, <1>11, <1>12, NameStep DEF v

\* A .part file is removed.
LEMMA DiscardStep ==
  ASSUME IsoInv, OnePerRelease, NEW p \in Downloaders, Discard(p) PROVE IsoInv'
<1>1. Only(p, Idle)
  BY Kinds, Ends DEF IsoInv, Discard
<1>2. part \in [Versions -> 0..Inodes] /\ img \in [Versions -> 0..Inodes] /\ 0 \in 0..Inodes
  BY InodeAssumption DEF IsoInv, TypeOK
<1>3. /\ part' = [part EXCEPT ![proc[p].version] = 0] \/ part' = part
      /\ UNCHANGED <<server, data, img, stick, flashed>> /\ ~At(p, "idle")
  BY DEF Discard, At
<1>4. /\ part' \in [Versions -> 0..Inodes]
      /\ \A w \in Versions : w # proc[p].version => part'[w] = part[w]
      /\ \A w \in Versions : part'[w] # 0 => part'[w] = part[w]
  BY <1>2, <1>3
<1>5. Names' /\ CachedIsGenuine'
  BY <1>3, <1>4 DEF IsoInv, Names, CachedIsGenuine, Genuine
<1>6. DownloadInv(p)'
  BY <1>1, IdleInv
<1> QED BY <1>1, <1>2, <1>3, <1>4, <1>5, <1>6, NameStep

\* Other images are removed.
LEMMA CleanupStep ==
  ASSUME IsoInv, OnePerRelease, NEW p \in Downloaders, CleanupOldVersions(p) PROVE IsoInv'
<1>1. Only(p, Idle)
  BY Kinds, Ends DEF IsoInv, CleanupOldVersions
<1>2. PICK stay \in SUBSET Versions :
       img' = [v \in Versions |-> IF v \in stay \cup {proc[p].version} THEN img[v] ELSE 0]
  BY DEF CleanupOldVersions
<1>3. /\ part \in [Versions -> 0..Inodes] /\ img \in [Versions -> 0..Inodes] /\ 0 \in 0..Inodes
  BY InodeAssumption DEF IsoInv, TypeOK
<1>4. UNCHANGED <<server, data, part, stick, flashed>> /\ ~At(p, "idle")
  BY DEF CleanupOldVersions, At
<1>5. img' \in [Versions -> 0..Inodes] /\ \A w \in Versions : img'[w] # 0 => img'[w] = img[w]
  BY <1>2, <1>3
<1>6. Names' /\ CachedIsGenuine'
  BY <1>4, <1>5 DEF IsoInv, Names, CachedIsGenuine, Genuine
<1>7. DownloadInv(p)'
  BY <1>1, IdleInv
<1> QED BY <1>1, <1>3, <1>4, <1>5, <1>6, <1>7, NameStep
-----------------------------------------------------------------------------
(* Flashing, releases, and the theorems about the cache.                   *)

\* What a step of CopyBlock is: one block more of the open image is on the stick.
LEMMA Copying ==
  ASSUME IsoInv, NEW p \in Flashers, CopyBlock(p)
  PROVE  LET b == proc[p].block
             i == proc[p].fd
             q == [proc[p] EXCEPT !.block = b + 1]
         IN  /\ At(p, "copy") /\ b \in 1..Blocks /\ i \in 1..Inodes
             /\ Only(p, q) /\ q.step = "copy" /\ q.fd = i /\ q.version = proc[p].version
             /\ q.block = b + 1
             /\ stick' \in Contents /\ flashed' = FALSE /\ UNCHANGED <<server, data, img, part>>
             /\ stick'[b] = data[i][b] /\ \A c \in 1..Blocks : c # b => stick'[c] = stick[c]
<1> DEFINE b == proc[p].block
<1> DEFINE i == proc[p].fd
<1> DEFINE q == [proc[p] EXCEPT !.block = b + 1]
<1>1. p \in Procs /\ proc[p] \in Process /\ At(p, "copy") /\ b <= Blocks
  BY Kinds, Processes DEF IsoInv, CopyBlock
<1>2. b \in 1..Blocks /\ b + 1 \in 1..(Blocks + 1) /\ i \in 1..Inodes
  <2>1. i # 0
    BY <1>1 DEF IsoInv, FlashInv
  <2> QED BY <1>1, <2>1, BlockAssumption, InodeAssumption DEF Process
<1>3. /\ q \in Process /\ q.step = "copy" /\ q.fd = i /\ q.version = proc[p].version
      /\ q.block = b + 1
  BY <1>1, <1>2 DEF Process, At
<1>4. proc' = [proc EXCEPT ![p] = q]
  BY DEF CopyBlock
<1>5. /\ stick' = [stick EXCEPT ![b] = data[i][b]] /\ flashed' = FALSE
      /\ UNCHANGED <<server, data, img, part>>
  BY DEF CopyBlock
<1>6. stick \in [1..Blocks -> 0..Wrong] /\ data[i] \in [1..Blocks -> 0..Wrong]
  BY <1>2 DEF IsoInv, TypeOK, Contents
<1> HIDE DEF b, i, q
<1>7. Only(p, q)
  BY <1>1, <1>3, <1>4, Moves DEF IsoInv
<1>8. /\ stick' \in Contents /\ stick'[b] = data[i][b]
      /\ \A c \in 1..Blocks : c # b => stick'[c] = stick[c]
  BY <1>2, <1>5, <1>6 DEF Contents
<1> QED BY <1>1, <1>2, <1>3, <1>5, <1>7, <1>8 DEF b, i, q

\* A block goes to the stick.
LEMMA CopyBlockStep == ASSUME IsoInv, NEW p \in Flashers, CopyBlock(p) PROVE IsoInv'
<1> DEFINE q == [proc[p] EXCEPT !.block = proc[p].block + 1]
<1>1. /\ At(p, "copy") /\ Only(p, q) /\ q.step = "copy" /\ q.fd = proc[p].fd
      /\ q.version = proc[p].version /\ UNCHANGED <<server, data, img, part>>
      /\ stick' \in Contents /\ flashed' = FALSE
  BY Copying
<1> HIDE DEF q
<1>2. FlashInv(p)
  BY DEF IsoInv
<1>3. FlashInv(p)'
  BY <1>1, <1>2 DEF Only, FlashInv, At, Genuine
<1> QED BY <1>1, <1>3, Kinds, OwnStep

\* A flash is done.
LEMMA SyncAllStep == ASSUME IsoInv, NEW p \in Flashers, SyncAll(p) PROVE IsoInv'
BY Kinds, EndsStep DEF SyncAll, IsoInv, TypeOK

\* A release comes out.
LEMMA ReleaseStep == ASSUME IsoInv, PublishRelease PROVE IsoInv'
<1>1. server' \in Versions /\ UNCHANGED <<data, img, part, proc, stick, flashed>>
  BY VersionAssumption DEF IsoInv, TypeOK, PublishRelease, Versions
<1>2. TypeOK' /\ Names' /\ CachedIsGenuine'
  BY <1>1 DEF IsoInv, TypeOK, Names, CachedIsGenuine, Genuine
<1>3. (\A p \in Downloaders : DownloadInv(p)') /\ (\A p \in Flashers : FlashInv(p)')
  BY <1>1 DEF IsoInv, DownloadInv, FlashInv, At, Genuine
<1> QED BY <1>2, <1>3 DEF IsoInv

\* Every step of a download.
LEMMA DownloadStep ==
  ASSUME IsoInv, OnePerRelease, NEW p \in Downloaders, Download(p) PROVE IsoInv'
<1>1. CASE CheckSha(p)
  <2>1. /\ proc[p].step = "sha256"
        /\ Check(p, Genuine(data[proc[p].fd], proc[p].target), "signature")
    BY <1>1 DEF CheckSha, At
  <2>2. Genuine(data[proc[p].fd], proc[p].target) \in BOOLEAN
    BY DEF Genuine
  <2> QED BY <2>1, <2>2, CheckStep
<1>2. CASE CheckSignature(p)
  <2>1. /\ proc[p].step = "signature"
        /\ Check(p, Genuine(data[proc[p].fd], proc[p].version), "rename")
    BY <1>2 DEF CheckSignature, At
  <2>2. Genuine(data[proc[p].fd], proc[p].version) \in BOOLEAN
    BY DEF Genuine
  <2> QED BY <2>1, <2>2, CheckStep
<1> QED BY <1>1, <1>2, FetchStep, CheckCachedStep, CreatePartStep, WriteBlockStep,
           EndOfResponseStep, OpenPartStep, RenameStep, DiscardStep, CleanupStep DEF Download

\* Every step of a flash.
LEMMA FlashStepStep == ASSUME IsoInv, NEW p \in Flashers, FlashStep(p) PROVE IsoInv'
BY FindImageStep, OpenImageStep, CopyBlockStep, SyncAllStep DEF FlashStep

\* Every step keeps the invariant.
LEMMA IsoNext == ASSUME IsoInv, OnePerRelease, [Next]_vars PROVE IsoInv'
<1>1. CASE UNCHANGED vars
  <2>1. TypeOK' /\ Names' /\ CachedIsGenuine'
    BY <1>1 DEF vars, IsoInv, TypeOK, Names, CachedIsGenuine, Genuine
  <2>2. (\A p \in Downloaders : DownloadInv(p)') /\ (\A p \in Flashers : FlashInv(p)')
    BY <1>1 DEF vars, IsoInv, DownloadInv, FlashInv, At, Genuine
  <2> QED BY <2>1, <2>2 DEF IsoInv
<1>2. CASE Next
  BY <1>2, ReleaseStep, DownloadStep, FlashStepStep, AbortStep DEF Next
<1> QED BY <1>1, <1>2

\* The invariant, as long as no two downloads are of the same release.
THEOREM Invariant == Spec /\ []OnePerRelease => []IsoInv
<1>1. Init => IsoInv
  BY IsoInit
<1>2. IsoInv /\ OnePerRelease /\ [Next]_vars => IsoInv'
  BY IsoNext
<1> QED BY <1>1, <1>2, PTL DEF Spec

\* CachedIsGenuine: every image in the cache is genuine at every moment (download_tails_iso),
\* whatever latest.json and the mirrors said, however many downloads and flashes run,
\* as long as no two downloads are of the same release.
THEOREM CacheIsGenuine == Spec /\ []OnePerRelease => []CachedIsGenuine
<1>1. IsoInv => CachedIsGenuine
  BY DEF IsoInv
<1> QED BY <1>1, Invariant, PTL
-----------------------------------------------------------------------------
(* The stick, with one flash at a time.                                    *)

\* A download leaves the stick and what the flashes do alone.
LEMMA DownloadLeaves ==
  ASSUME TypeOK, NEW p \in Downloaders, Download(p)
  PROVE  stick' = stick /\ flashed' = flashed /\ \A r \in Flashers : proc'[r] = proc[r]
<1>1. stick' = stick /\ flashed' = flashed
  BY DEF Download, FetchRelease, CheckCached, CreatePart, WriteBlock, EndOfResponse, OpenPart,
         CheckSha, CheckSignature, Check, Rename, Discard, CleanupOldVersions
<1>2. \E q : proc' = [proc EXCEPT ![p] = q]
  <2>1. CASE WriteBlock(p)
    <3>1. proc' = [proc EXCEPT ![p] = [proc[p] EXCEPT !.block = proc[p].block + 1]]
      BY <2>1 DEF WriteBlock
    <3> QED BY <3>1
  <2>2. CASE CheckCached(p)
    <3>1. \/ proc' = [proc EXCEPT ![p] = Idle]
          \/ proc' = [proc EXCEPT ![p] = [proc[p] EXCEPT !.step = "get"]]
      BY <2>2 DEF CheckCached, End, Goto
    <3> QED BY <3>1
  <2>3. CASE FetchRelease(p)
    BY <2>3 DEF FetchRelease
  <2>4. CASE CreatePart(p)
    BY <2>4 DEF CreatePart
  <2>5. CASE EndOfResponse(p) \/ OpenPart(p)
    BY <2>5 DEF EndOfResponse, OpenPart
  <2>6. CASE CheckSha(p) \/ CheckSignature(p)
    BY <2>6 DEF CheckSha, CheckSignature, Check
  <2>7. CASE Rename(p)
    BY <2>7 DEF Rename
  <2>8. CASE Discard(p) \/ CleanupOldVersions(p)
    BY <2>8 DEF Discard, CleanupOldVersions, End
  <2> QED BY <2>1, <2>2, <2>3, <2>4, <2>5, <2>6, <2>7, <2>8 DEF Download
<1>3. PICK q : proc' = [proc EXCEPT ![p] = q]
  BY <1>2
<1>4. proc \in [Procs -> Process]
  BY DEF TypeOK, Process
<1> QED BY <1>1, <1>3, <1>4, Kinds

\* With one flash, what holds for it holds for every flash.
LEMMA FlashStickStep ==
  ASSUME OneFlash, IsoInv, StickInv, NEW p \in Flashers, FlashStep(p)
  PROVE  StickInv'
<1>1. p \in Procs /\ proc[p] \in Process /\ proc \in [Procs -> Process]
      /\ FlashInv(p) /\ CopiedInv(p) /\ FlashedIsGenuine
  BY Kinds, Processes DEF IsoInv, StickInv, TypeOK, Process
<1>2. CASE FindImage(p)
  <2>1. PICK v \in Versions :
          proc' = [proc EXCEPT ![p] = [@ EXCEPT !.step = "prompt", !.version = v]]
    BY <1>2 DEF FindImage
  <2>2. proc'[p].step = "prompt" /\ stick' = stick /\ flashed' = flashed
    BY <1>1, <1>2, <2>1 DEF FindImage, Process
  <2>3. CopiedInv(p)' /\ FlashedIsGenuine'
    BY <1>1, <2>2 DEF CopiedInv, At, FlashedIsGenuine, Genuine
  <2> QED BY <2>3 DEF StickInv, OneFlash
<1>3. CASE OpenImage(p)
  <2>1. proc' = [proc EXCEPT ![p] = [@ EXCEPT !.step = "copy", !.fd = img[proc[p].version]]]
        /\ stick' = stick /\ flashed' = flashed /\ At(p, "prompt")
    BY <1>3 DEF OpenImage
  <2>2. proc'[p].block = 1
    BY <1>1, <2>1 DEF Process, FlashInv, At
  <2>3. CopiedInv(p)' /\ FlashedIsGenuine'
    BY <1>1, <2>1, <2>2, BlockAssumption DEF CopiedInv, FlashedIsGenuine, Genuine
  <2> QED BY <2>3 DEF StickInv, OneFlash
<1>4. CASE CopyBlock(p)
  <2> DEFINE b == proc[p].block
  <2> DEFINE i == proc[p].fd
  <2> DEFINE q == [proc[p] EXCEPT !.block = b + 1]
  <2>1. /\ At(p, "copy") /\ b \in 1..Blocks /\ i \in 1..Inodes
        /\ Only(p, q) /\ q.version = proc[p].version /\ q.block = b + 1
        /\ flashed' = FALSE
        /\ stick'[b] = data[i][b] /\ \A c \in 1..Blocks : c # b => stick'[c] = stick[c]
    BY <1>4, Copying
  <2> HIDE DEF b, i, q
  <2>2. data[i][b] = proc[p].version
    BY <1>1, <2>1 DEF FlashInv, Genuine, i
  <2>3. \A c \in 1..Blocks : c < b => stick[c] = proc[p].version
    BY <1>1, <2>1 DEF CopiedInv, b
  <2>4. \A c \in 1..Blocks : c < b + 1 => c = b \/ c < b
    BY <2>1
  <2>5. \A c \in 1..Blocks : c < b + 1 => stick'[c] = proc[p].version
    BY <2>1, <2>2, <2>3, <2>4
  <2>6. CopiedInv(p)' /\ FlashedIsGenuine'
    BY <2>1, <2>5 DEF CopiedInv, FlashedIsGenuine, Only
  <2> QED BY <2>6 DEF StickInv, OneFlash
<1>5. CASE SyncAll(p)
  <2>1. At(p, "copy") /\ proc[p].block > Blocks /\ stick' = stick /\ End(p)
    BY <1>5 DEF SyncAll
  <2>2. \A c \in 1..Blocks : stick[c] = proc[p].version
    BY <1>1, <2>1, BlockAssumption DEF CopiedInv, Process
  <2>3. FlashedIsGenuine'
    BY <1>1, <2>1, <2>2 DEF FlashedIsGenuine, Genuine, Process
  <2>4. CopiedInv(p)'
    BY <1>1, <2>1 DEF End, CopiedInv, At, Idle
  <2> QED BY <2>3, <2>4 DEF StickInv, OneFlash
<1> QED BY <1>2, <1>3, <1>4, <1>5 DEF FlashStep

\* Every step keeps what is known of the stick.
LEMMA StickNext == ASSUME OneFlash, IsoInv, StickInv, [Next]_vars PROVE StickInv'
<1>1. CASE UNCHANGED vars
  BY <1>1 DEF vars, StickInv, FlashedIsGenuine, CopiedInv, At, Genuine
<1>2. CASE PublishRelease
  BY <1>2 DEF PublishRelease, StickInv, FlashedIsGenuine, CopiedInv, At, Genuine
<1>3. ASSUME NEW p \in Downloaders, Download(p) PROVE StickInv'
  <2>1. stick' = stick /\ flashed' = flashed /\ \A r \in Flashers : proc'[r] = proc[r]
    BY <1>3, DownloadLeaves DEF IsoInv
  <2> QED BY <2>1 DEF StickInv, FlashedIsGenuine, CopiedInv, At, Genuine
<1>4. ASSUME NEW p \in Flashers, FlashStep(p) PROVE StickInv'
  BY <1>4, FlashStickStep
<1>5. ASSUME NEW p \in Procs, Abort(p) PROVE StickInv'
  <2>1. Only(p, Idle) /\ stick' = stick /\ flashed' = flashed
    BY <1>5, Ends DEF Abort, IsoInv
  <2>2. \A r \in Flashers : proc'[r] = proc[r] \/ proc'[r].step = "idle"
    BY <2>1, Kinds DEF Only, Idle
  <2> QED BY <2>1, <2>2 DEF StickInv, FlashedIsGenuine, CopiedInv, At, Genuine
<1> QED BY <1>1, <1>2, <1>3, <1>4, <1>5 DEF Next

\* FlashedIsGenuine: with one flash at a time, what it reports as done (flash_tails) is a
\* genuine image, although downloads replaced or removed the cached one meanwhile.
THEOREM FlashIsGenuine ==
  ASSUME OneFlash PROVE Spec /\ []OnePerRelease => []FlashedIsGenuine
<1>1. Init => StickInv
  BY DEF Init, StickInv, FlashedIsGenuine, CopiedInv, At, Idle, Procs
<1>2. IsoInv /\ StickInv /\ [Next]_vars => StickInv'
  BY StickNext
<1>3. StickInv => FlashedIsGenuine
  BY DEF StickInv
<1> QED BY <1>1, <1>2, <1>3, Invariant, PTL DEF Spec
-----------------------------------------------------------------------------
(* With one download and one flash at a time, the cache keeps the promise  *)
(* of ImageStore.                                                          *)

\* Nothing newer than the latest release is downloaded; and what a download cleans up for
\* is there.
Fetched(p) ==
  /\ ~At(p, "idle") => proc[p].version <= server
  /\ At(p, "cleanup") => img[proc[p].version] # 0
FetchedInv == \A p \in Downloaders : Fetched(p)

\* Every step keeps that.  Only PublishRelease, FetchRelease and Rename change a part of it.
LEMMA FetchedNext ==
  ASSUME OneDownload, IsoInv, FetchedInv, [Next]_vars
  PROVE  FetchedInv'
<1>1. server \in Nat /\ proc \in [Procs -> Process] /\ part \in [Versions -> 0..Inodes]
      /\ img \in [Versions -> 0..Inodes]
  BY DEF IsoInv, TypeOK, Process, Versions
<1>2. CASE UNCHANGED vars
  BY <1>2 DEF vars, FetchedInv, Fetched, At
<1>3. CASE PublishRelease
  BY <1>1, <1>3, Kinds DEF PublishRelease, FetchedInv, Fetched, At, Process, Versions
<1>4. ASSUME NEW p \in Downloaders, Download(p) PROVE FetchedInv'
  <2>1. p \in Procs /\ proc[p] \in Process /\ Fetched(p)
    BY <1>1, Kinds DEF FetchedInv
  <2>2. CASE FetchRelease(p)
    <3>1. PICK doc \in Documents : \E release \in ParseLatestJson(doc), to \in {"cached", "get"} :
           proc' = [proc EXCEPT ![p] = [@ EXCEPT !.step = to, !.version = release.version,
                                                 !.target = release.target]]
      BY <2>2 DEF FetchRelease
    <3>2. PICK release \in ParseLatestJson(doc), to \in {"cached", "get"} :
           proc' = [proc EXCEPT ![p] = [@ EXCEPT !.step = to, !.version = release.version,
                                                 !.target = release.target]]
      BY <3>1
    <3>3. release.version = server
      <4>1. release.version = doc[1].version /\ doc # <<>>
        BY DEF ParseLatestJson
      <4>2. \E paths : doc = <<[version |-> server, paths |-> paths]>>
        BY <4>1 DEF Documents
      <4> QED BY <4>1, <4>2
    <3>4. proc'[p].version = server /\ proc'[p].step = to /\ server' = server
      BY <1>1, <2>1, <2>2, <3>2, <3>3 DEF FetchRelease, Process
    <3>5. Fetched(p)'
      BY <1>1, <3>4 DEF Fetched, At
    <3> QED BY <3>5 DEF OneDownload, FetchedInv
  <2>3. CASE Rename(p)
    <3>1. server' = server /\ proc[p].version \in Versions /\ At(p, "rename")
      BY <2>1, <2>3 DEF Rename, Process
    <3>2. CASE part[proc[p].version] # 0
      <4>1. img' = [img EXCEPT ![proc[p].version] = part[proc[p].version]]
            /\ proc' = [proc EXCEPT ![p] = [@ EXCEPT !.step = "cleanup", !.fd = 0]]
        BY <2>3, <3>2 DEF Rename
      <4>2. proc'[p].version = proc[p].version /\ img'[proc[p].version] # 0
        BY <1>1, <2>1, <3>1, <3>2, <4>1 DEF Process
      <4> QED BY <2>1, <3>1, <4>2 DEF Fetched, At, OneDownload, FetchedInv
    <3>3. CASE part[proc[p].version] = 0
      <4>1. proc' = [proc EXCEPT ![p] = [@ EXCEPT !.step = "discard", !.fd = 0]]
        BY <2>3, <3>3 DEF Rename
      <4>2. proc'[p].version = proc[p].version /\ proc'[p].step = "discard"
        BY <1>1, <2>1, <4>1 DEF Process
      <4> QED BY <2>1, <3>1, <4>2 DEF Fetched, At, OneDownload, FetchedInv
    <3> QED BY <3>2, <3>3
  <2>4. ASSUME server' = server, ~At(p, "idle"),
               proc'[p].step = "idle"
               \/ (proc'[p].version = proc[p].version /\ proc'[p].step # "cleanup")
        PROVE  FetchedInv'
    BY <2>1, <2>4 DEF Fetched, At, OneDownload, FetchedInv
  <2>5. CASE CheckCached(p)
    <3>1. server' = server /\ At(p, "cached")
      BY <2>5 DEF CheckCached
    <3>2. proc' = [proc EXCEPT ![p] = Idle] \/ proc' = [proc EXCEPT ![p].step = "get"]
      BY <2>5 DEF CheckCached, End, Goto
    <3>3. \/ proc'[p].step = "idle"
          \/ proc'[p].version = proc[p].version /\ proc'[p].step # "cleanup"
      BY <1>1, <2>1, <3>2 DEF Idle, Process
    <3> QED BY <2>4, <3>1, <3>3 DEF At
  <2>6. CASE CreatePart(p)
    <3>1. server' = server /\ At(p, "get")
      BY <2>6 DEF CreatePart
    <3>2. PICK i : proc' = [proc EXCEPT ![p] = [@ EXCEPT !.step = "write", !.fd = i]]
      BY <2>6 DEF CreatePart
    <3>3. proc'[p].version = proc[p].version /\ proc'[p].step # "cleanup"
      BY <1>1, <2>1, <3>2 DEF Process
    <3> QED BY <2>4, <3>1, <3>3 DEF At
  <2>7. CASE WriteBlock(p)
    <3>1. server' = server /\ At(p, "write")
          /\ proc' = [proc EXCEPT ![p].block = proc[p].block + 1]
      BY <2>7 DEF WriteBlock
    <3>2. proc'[p].version = proc[p].version /\ proc'[p].step # "cleanup"
      BY <1>1, <2>1, <3>1 DEF Process, At
    <3> QED BY <2>4, <3>1, <3>2 DEF At
  <2>8. CASE EndOfResponse(p)
    <3>1. server' = server /\ At(p, "write")
          /\ proc' = [proc EXCEPT ![p] = [@ EXCEPT !.step = "open", !.fd = 0, !.block = 1]]
      BY <2>8 DEF EndOfResponse
    <3>2. proc'[p].version = proc[p].version /\ proc'[p].step # "cleanup"
      BY <1>1, <2>1, <3>1 DEF Process
    <3> QED BY <2>4, <3>1, <3>2 DEF At
  <2>9. CASE OpenPart(p)
    <3>1. server' = server /\ At(p, "open")
      BY <2>9 DEF OpenPart
    <3> DEFINE i == part[proc[p].version]
    <3> DEFINE to == IF i # 0 THEN "sha256" ELSE "discard"
    <3>2. proc' = [proc EXCEPT ![p] = [@ EXCEPT !.step = to, !.fd = i]]
      BY <2>9 DEF OpenPart
    <3>4. to # "cleanup"
      OBVIOUS
    <3> HIDE DEF i, to
    <3>3. proc'[p].version = proc[p].version /\ proc'[p].step # "cleanup"
      BY <1>1, <2>1, <3>2, <3>4 DEF Process
    <3> QED BY <2>4, <3>1, <3>3 DEF At
  <2>10. ASSUME NEW good, NEW to \in {"signature", "rename"}, Check(p, good, to),
                ~At(p, "idle")
         PROVE  FetchedInv'
    <3>1. \/ proc' = [proc EXCEPT ![p] = [@ EXCEPT !.step = to, !.target = Idle.target]]
          \/ proc' = [proc EXCEPT ![p] = [@ EXCEPT !.step = "discard", !.target = Idle.target,
                                                   !.fd = 0]]
      BY <2>10 DEF Check
    <3>2. CASE proc' = [proc EXCEPT ![p] = [@ EXCEPT !.step = to, !.target = Idle.target]]
      <4>1. proc'[p].version = proc[p].version /\ proc'[p].step = to
        BY <1>1, <2>1, <3>2 DEF Process
      <4> QED BY <2>4, <2>10, <4>1 DEF Check
    <3>3. CASE proc' = [proc EXCEPT ![p] = [@ EXCEPT !.step = "discard", !.target = Idle.target,
                                                     !.fd = 0]]
      <4>1. proc'[p].version = proc[p].version /\ proc'[p].step = "discard"
        BY <1>1, <2>1, <3>3 DEF Process
      <4> QED BY <2>4, <2>10, <4>1 DEF Check
    <3> QED BY <3>1, <3>2, <3>3
  <2>11. CASE CheckSha(p)
    BY <2>10, <2>11 DEF CheckSha, At
  <2>12. CASE CheckSignature(p)
    BY <2>10, <2>12 DEF CheckSignature, At
  <2>13. CASE Discard(p) \/ CleanupOldVersions(p)
    BY <1>1, <2>1, <2>4, <2>13 DEF Discard, CleanupOldVersions, End, Idle, At
  <2> QED BY <1>4, <2>2, <2>3, <2>5, <2>6, <2>7, <2>8, <2>9, <2>11, <2>12, <2>13 DEF Download
<1>5. ASSUME NEW p \in Flashers, FlashStep(p) PROVE FetchedInv'
  <2>1. server' = server /\ img' = img
    BY <1>5 DEF FlashStep, FindImage, OpenImage, CopyBlock, SyncAll
  <2>2. \E q : proc' = [proc EXCEPT ![p] = q]
    <3>1. CASE CopyBlock(p)
      <4>1. proc' = [proc EXCEPT ![p] = [proc[p] EXCEPT !.block = proc[p].block + 1]]
        BY <3>1 DEF CopyBlock
      <4> QED BY <4>1
    <3>2. CASE FindImage(p) \/ OpenImage(p) \/ SyncAll(p)
      BY <3>2 DEF FindImage, OpenImage, SyncAll, End
    <3> QED BY <1>5, <3>1, <3>2 DEF FlashStep
  <2>3. \A r \in Downloaders : proc'[r] = proc[r]
    BY <1>1, <2>2, Kinds
  <2> QED BY <2>1, <2>3 DEF FetchedInv, Fetched, At
<1>6. ASSUME NEW p \in Procs, Abort(p) PROVE FetchedInv'
  <2>1. Only(p, Idle) /\ server' = server /\ img' = img
    BY <1>6, Ends DEF Abort, IsoInv
  <2>2. \A r \in Downloaders : proc'[r] = proc[r] \/ proc'[r].step = "idle"
    BY <2>1, Kinds DEF Only, Idle
  <2> QED BY <2>1, <2>2 DEF FetchedInv, Fetched, At
<1> QED BY <1>2, <1>3, <1>4, <1>5, <1>6 DEF Next

\* In a sound cache a file of a name is a genuine image.
LEMMA SoundCache ==
  /\ CachedIsGenuine =>
       \A v \in Versions : CacheHas(v) = IF img[v] = 0 THEN "absent" ELSE "genuine"
  /\ CachedIsGenuine' =>
       \A v \in Versions : CacheHas(v)' = IF img'[v] = 0 THEN "absent" ELSE "genuine"
BY DEF CachedIsGenuine, CacheHas

\* What ImageStore sees of the flashes and of the stick.
Taken == {proc[p].version : p \in {f \in Flashers : At(f, "copy")}}
Written == IF flashed THEN StickHas ELSE 0

\* Nothing of what ImageStore sees has changed.
LEMMA Unseen ==
  ASSUME server' = server, img' = img, CachedIsGenuine, CachedIsGenuine',
         Taken' = Taken, Written' = Written
  PROVE  UNCHANGED Store!vars
<1>1. \A v \in Versions : CacheHas(v)' = CacheHas(v)
  BY SoundCache
<1> QED BY <1>1 DEF Store!vars, Taken, Written

\* What a download does is not seen in what is taken and written.
LEMMA DownloadUnseen ==
  ASSUME IsoInv, NEW p \in Downloaders, Download(p)
  PROVE  Taken' = Taken /\ Written' = Written
<1>1. stick' = stick /\ flashed' = flashed /\ \A r \in Flashers : proc'[r] = proc[r]
  BY DownloadLeaves DEF IsoInv
<1> QED BY <1>1 DEF Taken, Written, StickHas, At

\* The steps of ImageStore for one release.
LEMMA StoreSteps ==
  ASSUME NEW v \in Versions,
         Store!Add(v) \/ Store!Take(v) \/ Store!Write(v) \/ Store!Report(v) \/ Store!GiveUp(v)
  PROVE  Store!Next
<1>1. v \in Store!Versions
  BY DEF Store!Versions, Versions
<1> QED BY <1>1 DEF Store!Next

\* A download adds an image with its rename, and evicts with its cleanup all but
\* the one it has added.
LEMMA DownloadIsStore ==
  ASSUME IsoInv, IsoInv', FetchedInv, NEW p \in Downloaders, Download(p)
  PROVE  [Store!Next]_(Store!vars)
<1>1. /\ CachedIsGenuine /\ CachedIsGenuine' /\ Fetched(p) /\ proc[p] \in Process
      /\ img \in [Versions -> 0..Inodes]
  BY Kinds, Processes DEF IsoInv, FetchedInv, TypeOK
<1>2. Taken' = Taken /\ Written' = Written
  BY DownloadUnseen
<1> DEFINE v == proc[p].version
<1>3. v \in Versions
  BY <1>1 DEF Process
<1>4. CASE Rename(p) /\ part[v] # 0
  <2>1. server' = server /\ img' = [img EXCEPT ![v] = part[v]] /\ v <= server
    BY <1>1, <1>4 DEF Rename, Fetched, At
  <2>2. \A w \in Versions : CacheHas(w)' = IF w = v THEN "genuine" ELSE CacheHas(w)
    BY <1>1, <1>3, <1>4, <2>1, SoundCache
  <2>3. [w \in Versions |-> CacheHas(w)]' = [[w \in Versions |-> CacheHas(w)] EXCEPT ![v] = "genuine"]
    BY <1>3, <2>2
  <2>4. Store!Add(v)
    BY <1>2, <2>1, <2>3 DEF Store!Add, Taken, Written
  <2> QED BY <1>3, <2>4, StoreSteps
<1>5. CASE CleanupOldVersions(p)
  <2>1. PICK stay \in SUBSET Versions :
          img' = [w \in Versions |-> IF w \in stay \cup {v} THEN img[w] ELSE 0]
    BY <1>5 DEF CleanupOldVersions
  <2>2. server' = server /\ img[v] # 0
    BY <1>1, <1>5 DEF CleanupOldVersions, Fetched
  <2> DEFINE gone == {w \in Versions : w \notin stay \cup {v}}
  <2>3. \A w \in Versions : CacheHas(w)' = IF w \in gone THEN "absent" ELSE CacheHas(w)
    BY <1>1, <2>1, SoundCache
  <2>4. v \in Store!Cached /\ v \notin gone
    BY <1>1, <1>3, <2>2, SoundCache DEF Store!Cached, Store!Versions, Versions
  <2>5. gone \in SUBSET Store!Versions
    BY DEF Store!Versions, Versions
  <2> HIDE DEF gone
  <2>6. Store!Evict(gone)
    BY <1>2, <2>2, <2>3, <2>4 DEF Store!Evict, Store!Versions, Versions, Taken, Written
  <2> QED BY <2>5, <2>6 DEF Store!Next
<1>6. CASE ~(Rename(p) /\ part[v] # 0) /\ ~CleanupOldVersions(p)
  <2>1. server' = server /\ img' = img
    BY <1>6 DEF Download, FetchRelease, CheckCached, CreatePart, WriteBlock, EndOfResponse,
       OpenPart, CheckSha, CheckSignature, Check, Rename, Discard
  <2> QED BY <1>1, <1>2, <2>1, Unseen
<1> QED BY <1>4, <1>5, <1>6

\* With one flash at a time, what is taken is its image.
LEMMA OneTaken ==
  ASSUME OneFlash, NEW p \in Flashers
  PROVE  /\ Taken = IF At(p, "copy") THEN {proc[p].version} ELSE {}
         /\ Taken' = IF At(p, "copy")' THEN {proc'[p].version} ELSE {}
BY DEF OneFlash, Taken, At

\* A flash takes its image, writes it, and reports it.
LEMMA FlashIsStore ==
  ASSUME OneFlash, IsoInv, IsoInv', StickInv, NEW p \in Flashers, FlashStep(p)
  PROVE  [Store!Next]_(Store!vars)
<1> PICK v : v = proc[p].version
  OBVIOUS
<1>1. /\ CachedIsGenuine /\ CachedIsGenuine' /\ proc[p] \in Process /\ v \in Versions
      /\ CopiedInv(p) /\ p \in Procs /\ proc \in [Procs -> Process]
  BY Kinds, Processes DEF IsoInv, StickInv, TypeOK, Process
<1>2. server' = server /\ img' = img
  BY DEF FlashStep, FindImage, OpenImage, CopyBlock, SyncAll
<1>3. [w \in Versions |-> CacheHas(w)]' = [w \in Versions |-> CacheHas(w)]
  BY <1>1, <1>2, SoundCache
<1>4. v \in Store!Versions
  BY <1>1 DEF Store!Versions, Versions
<1>5. CASE FindImage(p)
  <2>1. PICK w : proc' = [proc EXCEPT ![p] = [@ EXCEPT !.step = "prompt", !.version = w]]
    BY <1>5 DEF FindImage
  <2>2. proc'[p].step = "prompt" /\ At(p, "idle") /\ stick' = stick /\ flashed' = flashed
    BY <1>1, <1>5, <2>1 DEF FindImage, Process
  <2>3. Taken' = Taken /\ Written' = Written
    BY <2>2, OneTaken DEF At, Written, StickHas
  <2> QED BY <1>1, <1>2, <2>3, Unseen
<1>6. CASE OpenImage(p)
  <2>1. /\ proc' = [proc EXCEPT ![p] = [@ EXCEPT !.step = "copy", !.fd = img[proc[p].version]]]
        /\ stick' = stick /\ flashed' = flashed /\ At(p, "prompt") /\ img[v] # 0
    BY <1>6 DEF OpenImage
  <2>2. proc'[p].step = "copy" /\ proc'[p].version = v
    BY <1>1, <2>1 DEF Process
  <2>3. Taken' = Taken \cup {v}
    BY <2>1, <2>2, OneTaken DEF At
  <2>4. v \in Store!Cached
    BY <1>1, <1>4, <2>1, SoundCache DEF Store!Cached
  <2>5. Written' = Written
    BY <2>1 DEF Written, StickHas
  <2>6. Store!Take(v)
    BY <1>2, <1>3, <2>3, <2>4, <2>5 DEF Store!Take, Taken, Written
  <2> QED BY <1>1, <2>6, StoreSteps
<1>7. CASE CopyBlock(p)
  <2> DEFINE q == [proc[p] EXCEPT !.block = proc[p].block + 1]
  <2>1. /\ At(p, "copy") /\ Only(p, q) /\ q.step = "copy" /\ q.version = v /\ flashed' = FALSE
    BY <1>7, Copying
  <2> HIDE DEF q
  <2>2. Taken = {v} /\ Taken' = {v}
    BY <2>1, OneTaken DEF At, Only
  <2>3. Written' = 0
    BY <2>1 DEF Written
  <2>4. Store!Write(v)
    BY <1>2, <1>3, <2>2, <2>3 DEF Store!Write, Taken, Written
  <2> QED BY <1>1, <2>4, StoreSteps
<1>8. CASE SyncAll(p)
  <2>1. /\ At(p, "copy") /\ proc[p].block > Blocks /\ stick' = stick /\ flashed' = TRUE
        /\ proc' = [proc EXCEPT ![p] = Idle]
    BY <1>8 DEF SyncAll, End
  <2>2. \A c \in 1..Blocks : stick'[c] = v
    BY <1>1, <2>1, BlockAssumption DEF CopiedInv, Process
  <2>3. Written' = v
    BY <2>1, <2>2, BlockAssumption DEF Written, StickHas
  <2>4. proc'[p].step = "idle"
    BY <1>1, <2>1 DEF Idle
  <2>5. Taken = {v} /\ Taken' = {}
    BY <2>1, <2>4, OneTaken DEF At
  <2>6. Store!Report(v)
    BY <1>2, <1>3, <2>3, <2>5 DEF Store!Report, Taken, Written
  <2> QED BY <1>1, <2>6, StoreSteps
<1> QED BY <1>5, <1>6, <1>7, <1>8 DEF FlashStep

\* A download that dies is not seen; a flash that dies gives its image up.
LEMMA AbortIsStore ==
  ASSUME OneFlash, IsoInv, IsoInv', NEW p \in Procs, Abort(p)
  PROVE  [Store!Next]_(Store!vars)
<1>1. /\ CachedIsGenuine /\ CachedIsGenuine' /\ proc[p] \in Process
      /\ UNCHANGED <<server, img, stick, flashed>> /\ Only(p, Idle)
  BY Processes, Ends DEF IsoInv, Abort
<1>2. Written' = Written
  BY <1>1 DEF Written, StickHas
<1>3. CASE p \in Flashers /\ At(p, "copy")
  <2> PICK v : v = proc[p].version
    OBVIOUS
  <2>1. Taken = {v} /\ Taken' = {}
    BY <1>1, <1>3, OneTaken DEF Only, Idle, At
  <2>2. [w \in Versions |-> CacheHas(w)]' = [w \in Versions |-> CacheHas(w)]
    BY <1>1, SoundCache
  <2>3. Store!GiveUp(v)
    BY <1>1, <1>2, <2>1, <2>2 DEF Store!GiveUp, Taken, Written
  <2>4. v \in Versions
    BY <1>1 DEF Process
  <2> QED BY <2>3, <2>4, StoreSteps
<1>4. CASE p \in Flashers /\ ~At(p, "copy")
  <2>1. Taken = {} /\ proc'[p].step = "idle"
    BY <1>1, <1>4, OneTaken DEF Only, Idle
  <2>2. Taken' = {}
    BY <1>4, <2>1, OneTaken DEF At
  <2> QED BY <1>1, <1>2, <2>1, <2>2, Unseen
<1>5. CASE p \notin Flashers
  <2>1. \A r \in Flashers : proc'[r] = proc[r]
    BY <1>1, <1>5, Kinds DEF Only
  <2>2. Taken' = Taken
    BY <2>1 DEF Taken, At
  <2> QED BY <1>1, <1>2, <2>2, Unseen
<1> QED BY <1>3, <1>4, <1>5

\* Every step is one of ImageStore, or not seen.
LEMMA StepIsStore ==
  ASSUME OneFlash, IsoInv, IsoInv', StickInv, FetchedInv, [Next]_vars
  PROVE  [Store!Next]_(Store!vars)
<1>1. CASE UNCHANGED vars
  <2>1. Taken' = Taken /\ Written' = Written
    BY <1>1 DEF vars, Taken, Written, StickHas, At
  <2> QED BY <1>1, <2>1, Unseen DEF vars, IsoInv
<1>2. CASE PublishRelease
  <2>1. Taken' = Taken /\ Written' = Written
    BY <1>2 DEF PublishRelease, Taken, Written, StickHas, At
  <2>2. [w \in Versions |-> CacheHas(w)]' = [w \in Versions |-> CacheHas(w)]
    BY <1>2 DEF PublishRelease, CacheHas, Genuine
  <2>3. server' \in Store!Versions /\ server' > server
    BY <1>2, VersionAssumption DEF PublishRelease, IsoInv, TypeOK, Versions, Store!Versions
  <2>4. Store!Release
    BY <2>1, <2>2, <2>3 DEF Store!Release, Taken, Written
  <2> QED BY <2>4 DEF Store!Next
<1> QED BY <1>1, <1>2, DownloadIsStore, FlashIsStore, AbortIsStore DEF Next

\* An empty cache is a store of no images.
LEMMA InitIsStore == Init => Store!Init
<1> SUFFICES ASSUME Init PROVE Store!Init
  OBVIOUS
<1>1. [v \in Versions |-> CacheHas(v)] = [v \in Versions |-> "absent"]
  BY DEF Init, CacheHas
<1>2. Taken = {} /\ Written = 0
  BY DEF Init, Taken, Written, At, Idle, Procs
<1> QED BY <1>1, <1>2 DEF Init, Store!Init, Store!Versions, Versions, Taken, Written

\* StoreKept: with one download and one flash at a time the cache, once it has an image,
\* never runs empty (download_tails_iso, cleanup_old_versions), and a flash writes the
\* release it has taken from it (flash_tails).  Two downloads at once could each remove
\* what the other has just renamed.
THEOREM CacheIsStore == ASSUME OneDownload, OneFlash PROVE Spec => StoreKept
<1>1. Init => StickInv /\ FetchedInv
  BY DEF Init, StickInv, FlashedIsGenuine, CopiedInv, FetchedInv, Fetched, At, Idle, Procs
<1>2. IsoInv /\ StickInv /\ [Next]_vars => StickInv'
  BY StickNext
<1>3. IsoInv /\ FetchedInv /\ [Next]_vars => FetchedInv'
  BY FetchedNext
<1>4. IsoInv /\ IsoInv' /\ StickInv /\ FetchedInv /\ [Next]_vars => [Store!Next]_(Store!vars)
  BY StepIsStore
<1>5. OnePerRelease
  BY DEF OneDownload, OnePerRelease
<1> QED BY <1>1, <1>2, <1>3, <1>4, <1>5, InitIsStore, Invariant, PTL DEF Spec, StoreKept, Store!Spec
-----------------------------------------------------------------------------
(* The types, whatever runs at the same time.                              *)

\* An image that is copied is one that was open.
TypeInv == TypeOK /\ \A p \in Procs : At(p, "copy") => proc[p].fd # 0
Rest == <<server, data, img, part, stick, flashed>>
TypedRest ==
  /\ server \in Versions /\ data \in [1..Inodes -> Contents]
  /\ img \in [Versions -> 0..Inodes] /\ part \in [Versions -> 0..Inodes]
  /\ stick \in Contents /\ flashed \in BOOLEAN

\* A step of one process.
LEMMA TypeStep ==
  ASSUME TypeInv, NEW p \in Procs, NEW q \in Process, proc' = [proc EXCEPT ![p] = q],
         q.step = "copy" => q.fd # 0, UNCHANGED Rest \/ TypedRest'
  PROVE  TypeInv'
<1>1. proc \in [Procs -> Process] /\ TypedRest
  BY DEF TypeInv, TypeOK, Process, TypedRest
<1>2. TypedRest'
  BY <1>1 DEF Rest, TypedRest
<1>3. proc' \in [Procs -> Process]
  BY <1>1
<1>4. TypeOK'
  BY <1>2, <1>3 DEF TypedRest, TypeOK, Process
<1>5. \A r \in Procs : At(r, "copy")' => proc'[r].fd # 0
  BY <1>1 DEF TypeInv, At
<1> QED BY <1>4, <1>5 DEF TypeInv

\* What an idle process is made of.
LEMMA IdleType ==
  /\ Idle \in Process /\ Idle.step = "idle" /\ Idle.target \in Versions
  /\ 0 \in 0..Inodes /\ 1 \in 1..(Blocks + 1)
BY VersionAssumption, InodeAssumption, BlockAssumption DEF Process, Idle, Versions

\* The steps of a download have the right types.
LEMMA DownloadTypes == ASSUME TypeInv, NEW p \in Downloaders, Download(p) PROVE TypeInv'
<1>1. /\ p \in Procs /\ proc[p] \in Process /\ proc \in [Procs -> Process] /\ TypedRest
      /\ Idle \in Process /\ Idle.step = "idle" /\ Idle.target \in Versions
      /\ 0 \in 0..Inodes /\ 1 \in 1..(Blocks + 1)
  <2>1. p \in Procs /\ TypeOK
    BY Kinds DEF TypeInv
  <2>2. proc \in [Procs -> Process] /\ TypedRest
    BY <2>1 DEF TypeOK, Process, TypedRest
  <2> QED BY <2>1, <2>2, IdleType
<1>2. CASE FetchRelease(p)
  <2>1. PICK doc \in Documents : \E release \in ParseLatestJson(doc), to \in {"cached", "get"} :
         proc' = [proc EXCEPT ![p] = [@ EXCEPT !.step = to, !.version = release.version,
                                               !.target = release.target]]
    BY <1>2 DEF FetchRelease
  <2>2. PICK release \in ParseLatestJson(doc), to \in {"cached", "get"} :
         proc' = [proc EXCEPT ![p] = [@ EXCEPT !.step = to, !.version = release.version,
                                               !.target = release.target]]
    BY <2>1
  <2>3. release.version \in Versions /\ release.target \in Versions
    BY Parsed DEF TypeInv, TypeOK
  <2> DEFINE q == [proc[p] EXCEPT !.step = to, !.version = release.version,
                                  !.target = release.target]
  <2>4. q \in Process /\ q.step # "copy"
    BY <1>1, <2>3 DEF Process
  <2>5. proc' = [proc EXCEPT ![p] = q] /\ UNCHANGED Rest
    BY <1>2, <2>2 DEF FetchRelease, Rest
  <2> QED BY <1>1, <2>4, <2>5, TypeStep
<1>3. CASE CheckCached(p)
  <2> DEFINE q == [proc[p] EXCEPT !.step = "get"]
  <2>1. q \in Process /\ q.step # "copy"
    BY <1>1 DEF Process
  <2>2. UNCHANGED Rest /\ (proc' = [proc EXCEPT ![p] = Idle] \/ proc' = [proc EXCEPT ![p] = q])
    BY <1>3 DEF CheckCached, End, Goto, Rest
  <2> HIDE DEF q
  <2> QED BY <1>1, <2>1, <2>2, TypeStep
<1>4. CASE CreatePart(p)
  <2>1. PICK i \in 1..Inodes :
          /\ data' = [data EXCEPT ![i] = Empty] /\ part' = [part EXCEPT ![proc[p].version] = i]
          /\ proc' = [proc EXCEPT ![p] = [@ EXCEPT !.step = "write", !.fd = i]]
    BY <1>4 DEF CreatePart
  <2> DEFINE q == [proc[p] EXCEPT !.step = "write", !.fd = i]
  <2>2. i \in 0..Inodes /\ Empty \in Contents
    BY InodeAssumption, VersionAssumption DEF Contents, Empty, None, Wrong
  <2>3. q \in Process /\ q.step # "copy"
    BY <1>1, <2>2 DEF Process
  <2>4. TypedRest'
    BY <1>1, <1>4, <2>1, <2>2 DEF TypedRest, CreatePart
  <2> QED BY <1>1, <2>1, <2>3, <2>4, TypeStep
<1>5. CASE WriteBlock(p)
  <2>1. /\ At(p, "write") /\ proc[p].block <= Blocks /\ UNCHANGED <<server, img, part, stick, flashed>>
        /\ proc' = [proc EXCEPT ![p].block = proc[p].block + 1]
    BY <1>5 DEF WriteBlock
  <2>2. PICK c \in {proc[p].target, Wrong} : data' = [data EXCEPT ![proc[p].fd][proc[p].block] = c]
    BY <1>5 DEF WriteBlock
  <2>3. c \in 0..Wrong /\ proc[p].block \in 1..Blocks /\ proc[p].block + 1 \in 1..(Blocks + 1)
    BY <1>1, <2>1, VersionAssumption, BlockAssumption DEF Process, Versions, Wrong
  <2> DEFINE q == [proc[p] EXCEPT !.block = proc[p].block + 1]
  <2>4. q \in Process /\ q.step # "copy"
    BY <1>1, <2>1, <2>3 DEF Process, At
  <2>5. proc' = [proc EXCEPT ![p] = q]
    BY <2>1
  <2>6. data \in [1..Inodes -> Contents]
    BY <1>1 DEF TypedRest
  <2>7. data' \in [1..Inodes -> Contents]
    <3>1. \A i \in 1..Inodes : [data[i] EXCEPT ![proc[p].block] = c] \in Contents
      BY <2>3, <2>6 DEF Contents
    <3> QED BY <2>2, <2>6, <3>1
  <2>8. TypedRest'
    BY <1>1, <2>1, <2>7 DEF TypedRest
  <2> HIDE DEF q
  <2> QED BY <1>1, <2>4, <2>5, <2>8, TypeStep
<1>6. CASE EndOfResponse(p)
  <2> DEFINE q == [proc[p] EXCEPT !.step = "open", !.fd = 0, !.block = 1]
  <2>1. q \in Process /\ q.step # "copy"
    BY <1>1 DEF Process
  <2>2. UNCHANGED Rest /\ proc' = [proc EXCEPT ![p] = q]
    BY <1>6 DEF EndOfResponse, Rest
  <2> HIDE DEF q
  <2> QED BY <1>1, <2>1, <2>2, TypeStep
<1>7. CASE OpenPart(p)
  <2> DEFINE i == part[proc[p].version]
  <2> DEFINE q == [proc[p] EXCEPT !.step = IF i # 0 THEN "sha256" ELSE "discard", !.fd = i]
  <2>1. i \in 0..Inodes
    BY <1>1 DEF TypedRest, Process
  <2>2. UNCHANGED Rest /\ proc' = [proc EXCEPT ![p] = q]
    BY <1>7 DEF OpenPart, Rest
  <2> HIDE DEF i
  <2>3. q \in Process /\ q.step # "copy"
    BY <1>1, <2>1 DEF Process
  <2> HIDE DEF q
  <2> QED BY <1>1, <2>2, <2>3, TypeStep
<1>8. ASSUME NEW good, NEW to \in {"signature", "rename"}, Check(p, good, to) PROVE TypeInv'
  <2> DEFINE q == [proc[p] EXCEPT !.step = to, !.target = Idle.target]
  <2> DEFINE bad == [proc[p] EXCEPT !.step = "discard", !.target = Idle.target, !.fd = 0]
  <2>1. q \in Process /\ q.step # "copy"
    BY <1>1 DEF Process
  <2>2. bad \in Process /\ bad.step # "copy"
    BY <1>1 DEF Process
  <2>3. UNCHANGED Rest /\ (proc' = [proc EXCEPT ![p] = q] \/ proc' = [proc EXCEPT ![p] = bad])
    BY <1>8 DEF Check, Rest
  <2> HIDE DEF q, bad
  <2> QED BY <1>1, <2>1, <2>2, <2>3, TypeStep
<1>9. CASE CheckSha(p) \/ CheckSignature(p)
  BY <1>8, <1>9 DEF CheckSha, CheckSignature
<1>10. CASE Rename(p)
  <2> DEFINE q == [proc[p] EXCEPT !.step = "cleanup", !.fd = 0]
  <2> DEFINE bad == [proc[p] EXCEPT !.step = "discard", !.fd = 0]
  <2>1. q \in Process /\ q.step # "copy"
    BY <1>1 DEF Process
  <2>2. bad \in Process /\ bad.step # "copy"
    BY <1>1 DEF Process
  <2>3. proc' = [proc EXCEPT ![p] = q] \/ proc' = [proc EXCEPT ![p] = bad]
    BY <1>10 DEF Rename
  <2>4. proc[p].version \in Versions
    BY <1>1 DEF Process
  <2>5. \/ img' = img /\ part' = part
        \/ /\ img' = [img EXCEPT ![proc[p].version] = part[proc[p].version]]
           /\ part' = [part EXCEPT ![proc[p].version] = 0]
    BY <1>10 DEF Rename
  <2>6. img' \in [Versions -> 0..Inodes] /\ part' \in [Versions -> 0..Inodes]
    BY <1>1, <2>4, <2>5 DEF TypedRest
  <2>7. TypedRest'
    BY <1>1, <1>10, <2>6 DEF TypedRest, Rename
  <2> HIDE DEF q, bad
  <2> QED BY <1>1, <2>1, <2>2, <2>3, <2>7, TypeStep
<1>11. CASE Discard(p)
  <2>1. TypedRest'
    BY <1>1, <1>11 DEF TypedRest, Discard
  <2> QED BY <1>1, <1>11, <2>1, TypeStep DEF Discard, End
<1>12. CASE CleanupOldVersions(p)
  <2>1. PICK stay \in SUBSET Versions :
         img' = [v \in Versions |-> IF v \in stay \cup {proc[p].version} THEN img[v] ELSE 0]
    BY <1>12 DEF CleanupOldVersions
  <2>2. img' \in [Versions -> 0..Inodes]
    BY <1>1, <2>1 DEF TypedRest
  <2>3. TypedRest'
    BY <1>1, <1>12, <2>2 DEF TypedRest, CleanupOldVersions
  <2> QED BY <1>1, <1>12, <2>3, TypeStep DEF CleanupOldVersions, End
<1> QED BY <1>2, <1>3, <1>4, <1>5, <1>6, <1>7, <1>9, <1>10, <1>11, <1>12 DEF Download

\* The steps of a flash have the right types.
LEMMA FlashTypes == ASSUME TypeInv, NEW p \in Flashers, FlashStep(p) PROVE TypeInv'
<1>1. /\ p \in Procs /\ proc[p] \in Process /\ proc \in [Procs -> Process] /\ TypedRest
      /\ Idle \in Process /\ Idle.step = "idle"
  <2>1. p \in Procs /\ TypeOK
    BY Kinds DEF TypeInv
  <2>2. proc \in [Procs -> Process] /\ TypedRest
    BY <2>1 DEF TypeOK, Process, TypedRest
  <2> QED BY <2>1, <2>2, IdleType
<1>2. CASE FindImage(p)
  <2>1. PICK v \in Versions :
          proc' = [proc EXCEPT ![p] = [@ EXCEPT !.step = "prompt", !.version = v]]
    BY <1>2 DEF FindImage
  <2> DEFINE q == [proc[p] EXCEPT !.step = "prompt", !.version = v]
  <2>2. q \in Process /\ q.step # "copy"
    BY <1>1 DEF Process
  <2>3. UNCHANGED Rest /\ proc' = [proc EXCEPT ![p] = q]
    BY <1>2, <2>1 DEF FindImage, Rest
  <2> HIDE DEF q
  <2> QED BY <1>1, <2>2, <2>3, TypeStep
<1>3. CASE OpenImage(p)
  <2> DEFINE i == img[proc[p].version]
  <2> DEFINE q == [proc[p] EXCEPT !.step = "copy", !.fd = i]
  <2>1. i \in 0..Inodes
    BY <1>1 DEF TypedRest, Process
  <2>2. UNCHANGED Rest /\ proc' = [proc EXCEPT ![p] = q] /\ i # 0
    BY <1>3 DEF OpenImage, Rest
  <2> HIDE DEF i
  <2>3. q \in Process /\ q.fd = i
    BY <1>1, <2>1 DEF Process
  <2> HIDE DEF q
  <2> QED BY <1>1, <2>2, <2>3, TypeStep
<1>4. CASE CopyBlock(p)
  <2>1. /\ At(p, "copy") /\ proc[p].block <= Blocks /\ UNCHANGED <<server, data, img, part>>
        /\ proc' = [proc EXCEPT ![p].block = proc[p].block + 1] /\ flashed' = FALSE
        /\ stick' = [stick EXCEPT ![proc[p].block] = data[proc[p].fd][proc[p].block]]
    BY <1>4 DEF CopyBlock
  <2>2. /\ proc[p].fd # 0 /\ proc[p].fd \in 1..Inodes /\ proc[p].block \in 1..Blocks
        /\ proc[p].block + 1 \in 1..(Blocks + 1)
    BY <1>1, <2>1, InodeAssumption, BlockAssumption DEF TypeInv, Process
  <2> DEFINE q == [proc[p] EXCEPT !.block = proc[p].block + 1]
  <2>3. q \in Process /\ q.fd # 0
    BY <1>1, <2>2 DEF Process
  <2>4. proc' = [proc EXCEPT ![p] = q]
    BY <2>1
  <2>5. data[proc[p].fd][proc[p].block] \in 0..Wrong
    BY <1>1, <2>2 DEF TypedRest, Contents
  <2>6. stick' \in Contents
    BY <1>1, <2>1, <2>5 DEF TypedRest, Contents
  <2>7. TypedRest'
    BY <1>1, <2>1, <2>6 DEF TypedRest
  <2> HIDE DEF q
  <2> QED BY <1>1, <2>3, <2>4, <2>7, TypeStep
<1>5. CASE SyncAll(p)
  <2>1. TypedRest'
    BY <1>1, <1>5 DEF TypedRest, SyncAll
  <2> QED BY <1>1, <1>5, <2>1, TypeStep DEF SyncAll, End
<1> QED BY <1>2, <1>3, <1>4, <1>5 DEF FlashStep

\* TypeOK, with any number of downloads and flashes at once, also of one release.
THEOREM TypeCorrect == Spec => []TypeOK
<1>1. Init => TypeInv
  <2>1. Init => TypeOK
    BY IsoInit DEF IsoInv
  <2> QED BY <2>1 DEF TypeInv, Init, At, Idle
<1>2. TypeInv /\ [Next]_vars => TypeInv'
  <2> SUFFICES ASSUME TypeInv, [Next]_vars PROVE TypeInv'
    OBVIOUS
  <2>1. CASE UNCHANGED vars
    BY <2>1 DEF vars, TypeInv, TypeOK, At
  <2>2. CASE PublishRelease
    BY <2>2, VersionAssumption DEF PublishRelease, TypeInv, TypeOK, At, Versions
  <2>3. ASSUME NEW p \in Procs, Abort(p) PROVE TypeInv'
    <3> QED BY <2>3, IdleType, TypeStep DEF Abort, End, Rest
  <2> QED BY <2>1, <2>2, <2>3, DownloadTypes, FlashTypes DEF Next
<1>3. TypeInv => TypeOK
  BY DEF TypeInv
<1> QED BY <1>1, <1>2, <1>3, PTL DEF Spec
-----------------------------------------------------------------------------
(***************************************************************************)
(* FlashTarget.                                                            *)
(***************************************************************************)
(* Induction, for a set where the library has a predicate.                 *)

\* A set of numbers that has 0, and the next number of each it has, has all of them.
LEMMA Induction ==
  ASSUME NEW S, 0 \in S, \A n \in Nat : n \in S => n + 1 \in S
  PROVE  Nat \subseteq S
<1> DEFINE R == {ss \in Nat \X Nat : ss[1] < ss[2]}
<1> DEFINE T == Nat \ S
<1>1. IsWellFoundedOn(R, Nat)
  BY NatLessThanWellFounded DEF OpToRel
<1>2. \A m, n \in T : <<m, n>> \in R <=> m < n
  OBVIOUS
<1>3. T # {} => \E n \in T : \A m \in T : ~(<<m, n>> \in R)
  <2> HIDE DEF R
  <2> QED BY <1>1, WFMin
<1>4. T # {} => \E n \in T : \A m \in T : ~(m < n)
  <2> HIDE DEF R
  <2> QED BY <1>2, <1>3
<1>5. \A n \in T : n - 1 \in T /\ n - 1 < n
  OBVIOUS
<1> HIDE DEF T
<1> QED BY <1>4, <1>5 DEF T

\* The sums of Joined exist.
LEMMA SumsExist ==
  ASSUME NEW N \in Nat, NEW s
  PROVE  \E h : h = [k \in 0..N |-> IF k = 0 THEN <<>> ELSE h[k - 1] \o s[k]]
<1> DEFINE Sum(g, k) == IF k = 0 THEN <<>> ELSE g[k - 1] \o s[k]
<1> DEFINE S == {m \in Nat : \E g : \A k \in 0..N : k <= m => g[k] = Sum(g, k)}
<1>1. 0 \in S
  <2> DEFINE g == [k \in 0..N |-> <<>>]
  <2>1. ASSUME NEW k \in 0..N, k <= 0 PROVE g[k] = Sum(g, k)
    <3>1. k = 0
      BY <2>1
    <3> QED BY <3>1
  <2> HIDE DEF g, Sum
  <2> QED BY <2>1
<1>2. ASSUME NEW m \in Nat, m \in S PROVE m + 1 \in S
  <2>1. PICK g : \A k \in 0..N : k <= m => g[k] = Sum(g, k)
    BY <1>2
  <2> DEFINE h == [k \in 0..N |-> IF k <= m THEN g[k] ELSE g[k - 1] \o s[k]]
  <2>2. \A k \in 0..N : k <= m + 1 => h[k] = Sum(h, k)
    BY <2>1
  <2> HIDE DEF h, Sum
  <2> QED BY <2>2
<1>3. N \in S
  <2> HIDE DEF S
  <2> QED BY <1>1, <1>2, Induction
<1>4. PICK g : \A k \in 0..N : k <= N => g[k] = Sum(g, k)
  BY <1>3
<1> DEFINE f == [k \in 0..N |-> g[k]]
<1>5. f = [k \in 0..N |-> Sum(f, k)]
  BY <1>4
<1> QED BY <1>5

\* Joined, as its definition says.
LEMMA JoinedIs ==
  ASSUME NEW n \in Nat, NEW s
  PROVE  \E h : /\ h = [k \in 0..n |-> IF k = 0 THEN <<>> ELSE h[k - 1] \o s[k]]
                /\ Joined(s, n) = h[n]
<1> DEFINE h == CHOOSE h : h = [k \in 0..n |-> IF k = 0 THEN <<>> ELSE h[k - 1] \o s[k]]
<1>1. h = [k \in 0..n |-> IF k = 0 THEN <<>> ELSE h[k - 1] \o s[k]]
  BY SumsExist
<1>2. Joined(s, n) = h[n]
  BY DEF Joined
<1> QED BY <1>1, <1>2
-----------------------------------------------------------------------------
(* The tree of block devices.                                              *)

Tree ==
  /\ parent \in [Nodes -> 0..NumNodes] /\ type \in [Nodes -> {"disk", "part", "crypt", "lvm"}]
  /\ \A n \in Nodes :
       IF n \in Disks THEN parent[n] = 0 /\ type[n] = "disk"
       ELSE /\ parent[n] \in 1..(n - 1) /\ type[n] # "disk"
            /\ type[n] = "part" => parent[n] \in Disks
            /\ Platform = "macos" => type[n] = "part"
  /\ fit \in SUBSET Disks

LEMMA ParentIsEarlier ==
  ASSUME Tree, NEW n \in Nodes
  PROVE  parent[n] = 0 \/ (parent[n] \in Nodes /\ parent[n] < n)
BY NodeAssumption DEF Tree, Nodes, Disks

LEMMA ChildIsLater ==
  ASSUME Tree, there \subseteq Nodes, NEW n \in Nodes, NEW c \in Children(n)
  PROVE  c \in Nodes /\ c > n
BY NodeAssumption DEF Tree, Children, Nodes, Disks

\* DiskOf, as its definition says: a parent has a smaller number.
LEMMA DiskOfIs ==
  ASSUME Tree
  PROVE  \A n \in Nodes : DiskOf[n] = IF parent[n] = 0 THEN n ELSE DiskOf[parent[n]]
<1> DEFINE D(g, n) == IF parent[n] = 0 THEN n ELSE g[parent[n]]
<1> DEFINE S == {m \in Nat : \E g : \A n \in Nodes : n <= m => g[n] = D(g, n)}
<1>1. 0 \in S
  BY NodeAssumption DEF Nodes
<1>2. ASSUME NEW m \in Nat, m \in S PROVE m + 1 \in S
  <2>1. PICK g : \A n \in Nodes : n <= m => g[n] = D(g, n)
    BY <1>2
  <2> DEFINE h == [n \in Nodes |-> IF n <= m THEN g[n] ELSE D(g, n)]
  <2>2. \A n \in Nodes : n <= m + 1 => h[n] = D(h, n)
    BY <2>1, ParentIsEarlier, NodeAssumption DEF Nodes
  <2> HIDE DEF h, D
  <2> QED BY <2>2
<1>3. NumNodes \in S
  <2> HIDE DEF S
  <2> QED BY <1>1, <1>2, Induction, NodeAssumption
<1>4. PICK g : \A n \in Nodes : n <= NumNodes => g[n] = D(g, n)
  BY <1>3
<1> DEFINE f == [n \in Nodes |-> g[n]]
<1>5. f = [n \in Nodes |-> D(f, n)]
  BY <1>4, ParentIsEarlier, NodeAssumption DEF Nodes
<1> HIDE DEF f
<1>6. DiskOf = [n \in Nodes |-> D(DiskOf, n)]
  BY <1>5 DEF DiskOf
<1> QED BY <1>6

\* InsideFirst, as its definition says: a child has a greater number.
Inner(g, n) == [k \in Nodes |-> IF k \in Children(n) THEN g[k] \o <<k>> ELSE <<>>]

LEMMA InsideFirstIs ==
  ASSUME Tree, there \subseteq Nodes
  PROVE  \A n \in Nodes : InsideFirst[n] = Joined(Inner(InsideFirst, n), NumNodes)
<1> DEFINE F(g, n) == Joined(Inner(g, n), NumNodes)
<1> DEFINE S == {m \in Nat : \E g : \A n \in Nodes : n > NumNodes - m => g[n] = F(g, n)}
<1>n. NumNodes \in Nat
  BY NodeAssumption
<1>c. \A n \in Nodes : \A c \in Children(n) : c \in Nodes /\ c > n
  BY ChildIsLater
<1>1. 0 \in S
  BY <1>n DEF Nodes
<1>2. ASSUME NEW m \in Nat, m \in S PROVE m + 1 \in S
  <2>1. PICK g : \A n \in Nodes : n > NumNodes - m => g[n] = F(g, n)
    BY <1>2
  <2> DEFINE h == [n \in Nodes |-> IF n > NumNodes - m THEN g[n] ELSE F(g, n)]
  <2>2. ASSUME NEW n \in Nodes, n > NumNodes - (m + 1) PROVE h[n] = F(h, n)
    <3>1. \A c \in Children(n) : c \in Nodes /\ c > NumNodes - m
      BY <2>2, <1>c, <1>n DEF Nodes
    <3>2. Inner(h, n) = Inner(g, n)
      BY <3>1 DEF Inner
    <3>3. h[n] = F(g, n)
      BY <2>1
    <3> HIDE DEF h
    <3> QED BY <3>2, <3>3
  <2> HIDE DEF h, F
  <2> QED BY <2>2
<1>3. NumNodes \in S
  <2> HIDE DEF S
  <2> QED BY <1>1, <1>2, Induction, <1>n
<1>4. PICK g : \A n \in Nodes : n > NumNodes - NumNodes => g[n] = F(g, n)
  BY <1>3
<1> DEFINE f == [n \in Nodes |-> g[n]]
<1>5. f = [n \in Nodes |-> F(f, n)]
  <2>1. ASSUME NEW n \in Nodes PROVE f[n] = F(f, n)
    <3>1. Inner(f, n) = Inner(g, n)
      BY <1>c DEF Inner
    <3>2. f[n] = F(g, n)
      BY <1>4, <1>n DEF Nodes
    <3> HIDE DEF f
    <3> QED BY <3>1, <3>2
  <2> HIDE DEF F
  <2> QED BY <2>1
<1> HIDE DEF f
<1>6. InsideFirst = [n \in Nodes |-> F(InsideFirst, n)]
  BY <1>5 DEF InsideFirst, Inner
<1> QED BY <1>6
-----------------------------------------------------------------------------
(* The order in which the devices of a disk are visited.                   *)

Has(seq, x) == \E i \in DOMAIN seq : seq[i] = x
ChildrenFirst(v) ==
  \A i \in DOMAIN v : \A c \in Children(v[i]) : \E j \in 1..(i - 1) : v[j] = c

\* What is where in two sequences, one after the other.
LEMMA Concat ==
  ASSUME NEW S, NEW v \in Seq(S), NEW w \in Seq(S)
  PROVE  /\ v \o w \in Seq(S) /\ Len(v) \in Nat
         /\ DOMAIN v = 1..Len(v) /\ DOMAIN w = 1..Len(w)
         /\ \A i \in DOMAIN v : i \in DOMAIN (v \o w) /\ (v \o w)[i] = v[i]
         /\ \A i \in DOMAIN w : Len(v) + i \in DOMAIN (v \o w) /\ (v \o w)[Len(v) + i] = w[i]
         /\ \A i \in DOMAIN (v \o w) :
              \/ i \in DOMAIN v /\ (v \o w)[i] = v[i]
              \/ i > Len(v) /\ i - Len(v) \in DOMAIN w /\ (v \o w)[i] = w[i - Len(v)]
<1>1. Len(v) \in Nat /\ Len(w) \in Nat /\ DOMAIN v = 1..Len(v) /\ DOMAIN w = 1..Len(w)
  BY LenProperties
<1>2. v \o w \in Seq(S) /\ DOMAIN (v \o w) = 1..(Len(v) + Len(w))
  BY ConcatProperties, LenProperties
<1>3. \A i \in 1..(Len(v) + Len(w)) : (v \o w)[i] = IF i <= Len(v) THEN v[i] ELSE w[i - Len(v)]
  BY ConcatProperties
<1> QED BY <1>1, <1>2, <1>3

LEMMA HasEither ==
  ASSUME NEW S, NEW v \in Seq(S), NEW w \in Seq(S)
  PROVE  \A x : Has(v \o w, x) <=> Has(v, x) \/ Has(w, x)
<1> SUFFICES ASSUME NEW x PROVE Has(v \o w, x) <=> Has(v, x) \/ Has(w, x)
  OBVIOUS
<1>1. Has(v, x) => Has(v \o w, x)
  BY Concat DEF Has
<1>2. ASSUME Has(w, x) PROVE Has(v \o w, x)
  <2>1. PICK i \in DOMAIN w : w[i] = x
    BY <1>2 DEF Has
  <2>2. Len(v) + i \in DOMAIN (v \o w) /\ (v \o w)[Len(v) + i] = x
    BY <2>1, Concat
  <2> QED BY <2>2 DEF Has
<1>3. Has(v \o w, x) => Has(v, x) \/ Has(w, x)
  BY Concat DEF Has
<1> QED BY <1>1, <1>2, <1>3

LEMMA HasOne == ASSUME NEW x PROVE DOMAIN <<x>> = 1..1 /\ <<x>>[1] = x
OBVIOUS

\* Children come first in two sequences when they do in each.
LEMMA OrderOfTwo ==
  ASSUME NEW v \in Seq(Nodes), NEW w \in Seq(Nodes), ChildrenFirst(v), ChildrenFirst(w)
  PROVE  ChildrenFirst(v \o w)
<1> SUFFICES ASSUME NEW i \in DOMAIN (v \o w), NEW c \in Children((v \o w)[i])
             PROVE  \E j \in 1..(i - 1) : (v \o w)[j] = c
  BY DEF ChildrenFirst
<1>1. CASE i \in DOMAIN v /\ (v \o w)[i] = v[i]
  <2>1. PICK j \in 1..(i - 1) : v[j] = c
    BY <1>1 DEF ChildrenFirst
  <2>2. j \in DOMAIN v
    BY <1>1, Concat
  <2> QED BY <2>1, <2>2, Concat
<1>2. CASE i > Len(v) /\ i - Len(v) \in DOMAIN w /\ (v \o w)[i] = w[i - Len(v)]
  <2>1. PICK j \in 1..(i - Len(v) - 1) : w[j] = c
    BY <1>2 DEF ChildrenFirst
  <2>2. j \in DOMAIN w /\ Len(v) + j \in 1..(i - 1)
    BY <1>2, Concat
  <2>3. (v \o w)[Len(v) + j] = c
    BY <2>1, <2>2, Concat
  <2> QED BY <2>2, <2>3
<1> QED BY <1>1, <1>2, Concat

\* A device after its children.
LEMMA OrderOfOne ==
  ASSUME NEW v \in Seq(Nodes), NEW n \in Nodes, ChildrenFirst(v), \A c \in Children(n) : Has(v, c)
  PROVE  v \o <<n>> \in Seq(Nodes) /\ ChildrenFirst(v \o <<n>>)
<1> DEFINE w == <<n>>
<1>1. w \in Seq(Nodes) /\ DOMAIN w = 1..1 /\ w[1] = n
  OBVIOUS
<1> HIDE DEF w
<1>4. v \o w \in Seq(Nodes)
  BY <1>1, Concat
<1> SUFFICES ASSUME NEW i \in DOMAIN (v \o w), NEW c \in Children((v \o w)[i])
             PROVE  \E j \in 1..(i - 1) : (v \o w)[j] = c
  BY <1>4 DEF ChildrenFirst, w
<1>2. CASE i \in DOMAIN v /\ (v \o w)[i] = v[i]
  <2>1. PICK j \in 1..(i - 1) : v[j] = c
    BY <1>2 DEF ChildrenFirst
  <2>2. j \in DOMAIN v
    BY <1>1, <1>2, Concat
  <2> QED BY <1>1, <2>1, <2>2, Concat
<1>3. CASE i > Len(v) /\ i - Len(v) \in DOMAIN w /\ (v \o w)[i] = w[i - Len(v)]
  <2>1. PICK j \in DOMAIN v : v[j] = c
    BY <1>1, <1>3 DEF Has
  <2>2. j \in 1..(i - 1) /\ (v \o w)[j] = c
    BY <1>1, <1>3, <2>1, Concat
  <2> QED BY <2>2
<1> QED BY <1>1, <1>2, <1>3, Concat

LEMMA InsideFirstOrder ==
  ASSUME Tree, there \subseteq Nodes
  PROVE  \A n \in Nodes : /\ InsideFirst[n] \in Seq(Nodes) /\ ChildrenFirst(InsideFirst[n])
                          /\ \A c \in Children(n) : Has(InsideFirst[n], c)
<1> DEFINE Good(n) == /\ InsideFirst[n] \in Seq(Nodes) /\ ChildrenFirst(InsideFirst[n])
                      /\ \A c \in Children(n) : Has(InsideFirst[n], c)
<1> DEFINE S == {m \in Nat : \A n \in Nodes : n > NumNodes - m => Good(n)}
<1>n. NumNodes \in Nat
  BY NodeAssumption
<1>1. 0 \in S
  BY <1>n DEF Nodes
<1>2. ASSUME NEW m \in Nat, m \in S PROVE m + 1 \in S
  <2> SUFFICES ASSUME NEW n \in Nodes, n > NumNodes - (m + 1) PROVE Good(n)
    OBVIOUS
  <2> DEFINE s == Inner(InsideFirst, n)
  <2>1. ASSUME NEW k \in Nodes
        PROVE  s[k] \in Seq(Nodes) /\ ChildrenFirst(s[k]) /\ (k \in Children(n) => Has(s[k], k))
    <3>1. CASE k \in Children(n)
      <4>1. s[k] = InsideFirst[k] \o <<k>>
        BY <3>1 DEF Inner
      <4>2. Good(k)
        BY <3>1, <1>2, <1>n, ChildIsLater DEF Nodes
      <4>3. s[k] \in Seq(Nodes) /\ ChildrenFirst(s[k])
        BY <4>1, <4>2, OrderOfOne
      <4>4. Has(s[k], k)
        <5>1. <<k>> \in Seq(Nodes) /\ Has(<<k>>, k)
          BY DEF Has
        <5>2. Has(InsideFirst[k] \o <<k>>, k)
          BY <4>2, <5>1, HasEither
        <5> QED BY <4>1, <5>2
      <4> QED BY <4>3, <4>4
    <3>2. CASE k \notin Children(n)
      BY <3>2 DEF Inner, ChildrenFirst
    <3> QED BY <3>1, <3>2
  <2> HIDE DEF s
  <2>2. PICK h : /\ h = [k \in 0..NumNodes |-> IF k = 0 THEN <<>> ELSE h[k - 1] \o s[k]]
                 /\ Joined(s, NumNodes) = h[NumNodes]
    BY JoinedIs, <1>n
  <2> DEFINE Upto(k) == /\ h[k] \in Seq(Nodes) /\ ChildrenFirst(h[k])
                        /\ \A c \in Children(n) : c <= k => Has(h[k], c)
  <2> DEFINE U == {k \in Nat : k <= NumNodes => Upto(k)}
  <2>3. 0 \in U
    <3>1. h[0] = <<>>
      BY <2>2, <1>n
    <3>2. \A c \in Children(n) : ~(c <= 0)
      BY ChildIsLater DEF Nodes
    <3>3. <<>> \in Seq(Nodes) /\ ChildrenFirst(<<>>)
      BY DEF ChildrenFirst
    <3> QED BY <3>1, <3>2, <3>3
  <2>4. ASSUME NEW k \in Nat, k \in U PROVE k + 1 \in U
    <3> SUFFICES ASSUME k + 1 <= NumNodes PROVE Upto(k + 1)
      OBVIOUS
    <3>1. Upto(k) /\ k + 1 \in Nodes
      BY <2>4, <1>n DEF Nodes
    <3>2. h[k + 1] = h[k] \o s[k + 1]
      BY <2>2, <1>n
    <3>3. s[k + 1] \in Seq(Nodes) /\ ChildrenFirst(s[k + 1])
          /\ (k + 1 \in Children(n) => Has(s[k + 1], k + 1))
      BY <2>1, <3>1
    <3>4. h[k + 1] \in Seq(Nodes) /\ ChildrenFirst(h[k + 1])
      BY <3>1, <3>2, <3>3, OrderOfTwo, Concat
    <3>5. ASSUME NEW c \in Children(n), c <= k + 1 PROVE Has(h[k + 1], c)
      <4>1. c <= k \/ c = k + 1
        BY <3>5, ChildIsLater DEF Nodes
      <4>2. Has(h[k], c) \/ Has(s[k + 1], c)
        BY <4>1, <3>1, <3>3
      <4>3. Has(h[k] \o s[k + 1], c)
        BY <4>2, <3>1, <3>3, HasEither
      <4> QED BY <4>3, <3>2
    <3> QED BY <3>4, <3>5
  <2>5. Upto(NumNodes)
    <3>1. NumNodes \in U
      <4> HIDE DEF U
      <4> QED BY <2>3, <2>4, Induction, <1>n
    <3> QED BY <3>1, <1>n
  <2>6. InsideFirst[n] = h[NumNodes]
    BY <2>2, InsideFirstIs DEF s
  <2>7. \A c \in Children(n) : c <= NumNodes
    BY ChildIsLater, <1>n DEF Nodes
  <2> QED BY <2>5, <2>6, <2>7
<1>3. NumNodes \in S
  <2> HIDE DEF S
  <2> QED BY <1>1, <1>2, Induction, <1>n
<1>4. \A n \in Nodes : n > NumNodes - NumNodes => Good(n)
  BY <1>3
<1> QED BY <1>4, <1>n DEF Nodes

\* The devices that are there are in one tree with their parents.
Rooted == there \subseteq Nodes /\ \A n \in there : parent[n] \in there \cup {0}

\* Whoever visits a disk, and children first, visits all that is on it.
LEMMA VisitsAll ==
  ASSUME Tree, Rooted, NEW v \in Seq(Nodes), ChildrenFirst(v), NEW d \in Disks, Has(v, d)
  PROVE  \A n \in there : DiskOf[n] = d => Has(v, n)
<1> DEFINE S == {m \in Nat : \A n \in there : n <= m /\ DiskOf[n] = d => Has(v, n)}
<1>1. 0 \in S
  BY DEF Rooted, Nodes
<1>2. ASSUME NEW m \in Nat, m \in S PROVE m + 1 \in S
  <2> SUFFICES ASSUME NEW n \in there, n <= m + 1, DiskOf[n] = d PROVE Has(v, n)
    OBVIOUS
  <2>n. n \in Nodes /\ NumNodes \in Nat
    BY NodeAssumption DEF Rooted
  <2>1. CASE parent[n] = 0
    BY <2>1, <2>n, DiskOfIs
  <2>2. CASE parent[n] # 0
    <3>1. parent[n] \in there /\ parent[n] <= m /\ DiskOf[parent[n]] = d
      BY <2>2, <2>n, DiskOfIs, ParentIsEarlier DEF Rooted, Nodes
    <3>2. PICK i \in DOMAIN v : v[i] = parent[n]
      BY <3>1, <1>2 DEF Has
    <3>3. PICK j \in 1..(i - 1) : v[j] = n
      BY <3>2 DEF ChildrenFirst, Children
    <3>4. j \in DOMAIN v
      BY <3>2, <3>3, LenProperties
    <3> QED BY <3>3, <3>4 DEF Has
  <2> QED BY <2>1, <2>2
<1>3. NumNodes \in S
  <2> HIDE DEF S
  <2> QED BY <1>1, <1>2, Induction, NodeAssumption
<1>4. \A n \in there : n <= NumNodes
  BY NodeAssumption DEF Rooted, Nodes
<1> QED BY <1>3, <1>4

\* What `tails flash` visits of a disk: on Linux everything.
LEMMA VisitedIs ==
  ASSUME Tree, Rooted, NEW d \in Disks
  PROVE  /\ Visited(d) \in Seq(Nodes)
         /\ Platform = "linux" =>
              /\ ChildrenFirst(Visited(d))
              /\ \A n \in there : DiskOf[n] = d => Has(Visited(d), n)
<1>1. d \in Nodes
  BY NodeAssumption DEF Disks, Nodes
<1>2. CASE Platform = "macos"
  <2>1. Visited(d) = <<d>>
    BY <1>2 DEF Visited
  <2>2. <<d>> \in Seq(Nodes)
    BY <1>1
  <2> QED BY <1>2, <2>1, <2>2
<1>3. CASE Platform = "linux"
  <2>1. Visited(d) = InsideFirst[d] \o <<d>>
    BY <1>3 DEF Visited
  <2>2. /\ InsideFirst[d] \in Seq(Nodes) /\ ChildrenFirst(InsideFirst[d])
        /\ \A c \in Children(d) : Has(InsideFirst[d], c)
    BY <1>1, InsideFirstOrder DEF Rooted
  <2>3. Visited(d) \in Seq(Nodes) /\ ChildrenFirst(Visited(d))
    BY <1>1, <2>1, <2>2, OrderOfOne
  <2>4. Has(Visited(d), d)
    <3>1. <<d>> \in Seq(Nodes) /\ Has(<<d>>, d)
      BY <1>1 DEF Has
    <3>2. Has(InsideFirst[d] \o <<d>>, d)
      BY <2>2, <3>1, HasEither
    <3> QED BY <2>1, <3>2
  <2> QED BY <2>3, <2>4, VisitsAll
<1> QED BY <1>2, <1>3, PlatformAssumption
-----------------------------------------------------------------------------
(* What the listing collects of the devices it visits.                     *)

Umounts(p) == [cmd |-> "umount", point |-> p]
Closes(n) == [cmd |-> "close", node |-> n]

\* A device is mounted once.
Mounted ==
  /\ mounts \in Seq([node : there, point : Points])
  /\ \A i, j \in DOMAIN mounts : i # j => mounts[i].node # mounts[j].node

LEMMA MountPointIs ==
  ASSUME Mounted
  PROVE  /\ \A i \in DOMAIN mounts : /\ mounts[i].node \in MountedNodes
                                     /\ MountPoint(mounts[i].node) = mounts[i].point
         /\ \A n \in MountedNodes : MountPoint(n) \in Points
         /\ MountedNodes \subseteq there
<1>1. \A i \in DOMAIN mounts : mounts[i] \in [node : there, point : Points]
  BY ElementOfSeq, LenProperties DEF Mounted
<1>2. ASSUME NEW i \in DOMAIN mounts
      PROVE  /\ mounts[i].node \in MountedNodes /\ MountPoint(mounts[i].node) = mounts[i].point
  <2> DEFINE m == CHOOSE m \in Range(mounts) : m.node = mounts[i].node
  <2>1. m \in Range(mounts) /\ m.node = mounts[i].node
    BY DEF Range
  <2>2. PICK j \in DOMAIN mounts : m = mounts[j]
    BY <2>1 DEF Range
  <2>3. i = j
    BY <2>1, <2>2 DEF Mounted
  <2> QED BY <2>2, <2>3 DEF MountedNodes, MountPoint
<1>3. \A n \in MountedNodes : MountPoint(n) \in Points /\ n \in there
  BY <1>1, <1>2 DEF MountedNodes
<1> QED BY <1>2, <1>3

\* There is an umount for every mount point that was found.
Covered(found) == \A p : Has(found.points, p) => Has(found.commands, Umounts(p))

\* A container is closed after what is mounted on it and the containers in it are down.
Prepared(commands) ==
  \A k \in DOMAIN commands : \A n \in Nodes : commands[k] = Closes(n) =>
    /\ n \in MountedNodes => \E l \in 1..(k - 1) : commands[l] = Umounts(MountPoint(n))
    /\ \A c \in Children(n) : type[c] = "crypt" => \E l \in 1..(k - 1) : commands[l] = Closes(c)

LEMMA PreparedTwo ==
  ASSUME NEW a \in Seq(Command), NEW b \in Seq(Command), Prepared(a), Prepared(b)
  PROVE  Prepared(a \o b)
<1> DEFINE s == a \o b
<1> DEFINE Before(x, k, y) == \E l \in 1..(k - 1) : x[l] = y
<1>1. \A k \in DOMAIN a : \A y : Before(a, k, y) => Before(s, k, y)
  <2> SUFFICES ASSUME NEW k \in DOMAIN a, NEW y, NEW l \in 1..(k - 1), a[l] = y
               PROVE  Before(s, k, y)
    OBVIOUS
  <2>1. l \in DOMAIN a
    BY Concat
  <2> QED BY <2>1, Concat
<1>2. \A k \in DOMAIN b : \A y : Before(b, k, y) => Before(s, Len(a) + k, y)
  <2> SUFFICES ASSUME NEW k \in DOMAIN b, NEW y, NEW l \in 1..(k - 1), b[l] = y
               PROVE  Before(s, Len(a) + k, y)
    OBVIOUS
  <2>1. l \in DOMAIN b /\ Len(a) + l \in 1..(Len(a) + k - 1)
    BY Concat
  <2>2. s[Len(a) + l] = y
    BY <2>1, Concat
  <2> QED BY <2>1, <2>2
<1>3. ASSUME NEW k \in DOMAIN s
      PROVE  \/ k \in DOMAIN a /\ s[k] = a[k]
             \/ \E i \in DOMAIN b : k = Len(a) + i /\ s[k] = b[i]
  <2>1. CASE k > Len(a) /\ k - Len(a) \in DOMAIN b /\ s[k] = b[k - Len(a)]
    <3>1. k = Len(a) + (k - Len(a))
      BY <2>1, Concat
    <3> QED BY <2>1, <3>1
  <2> QED BY <2>1, Concat
<1>4. \A k \in DOMAIN a, n \in Nodes : a[k] = Closes(n) =>
         /\ n \in MountedNodes => Before(a, k, Umounts(MountPoint(n)))
         /\ \A c \in Children(n) : type[c] = "crypt" => Before(a, k, Closes(c))
  BY DEF Prepared
<1>5. \A k \in DOMAIN b, n \in Nodes : b[k] = Closes(n) =>
         /\ n \in MountedNodes => Before(b, k, Umounts(MountPoint(n)))
         /\ \A c \in Children(n) : type[c] = "crypt" => Before(b, k, Closes(c))
  BY DEF Prepared
<1> HIDE DEF s, Before
<1>6. \A k \in DOMAIN s, n \in Nodes : s[k] = Closes(n) =>
         /\ n \in MountedNodes => Before(s, k, Umounts(MountPoint(n)))
         /\ \A c \in Children(n) : type[c] = "crypt" => Before(s, k, Closes(c))
  BY <1>1, <1>2, <1>3, <1>4, <1>5
<1> QED BY <1>6 DEF Prepared, s, Before

LEMMA PreparedOne ==
  ASSUME NEW a \in Seq(Command), NEW n \in Crypts, Prepared(a),
         n \in MountedNodes => Has(a, Umounts(MountPoint(n))),
         \A c \in Children(n) : type[c] = "crypt" => Has(a, Closes(c))
  PROVE  a \o <<Closes(n)>> \in Seq(Command) /\ Prepared(a \o <<Closes(n)>>)
<1> DEFINE b == <<Closes(n)>>
<1> DEFINE s == a \o b
<1> DEFINE Before(x, k, y) == \E l \in 1..(k - 1) : x[l] = y
<1>1. b \in Seq(Command) /\ DOMAIN b = 1..1 /\ b[1] = Closes(n)
  BY DEF Command, Closes
<1> HIDE DEF b
<1>2. s \in Seq(Command)
  BY <1>1, Concat
<1>3. \A k \in DOMAIN a : \A y : Before(a, k, y) => Before(s, k, y)
  <2> SUFFICES ASSUME NEW k \in DOMAIN a, NEW y, NEW l \in 1..(k - 1), a[l] = y
               PROVE  Before(s, k, y)
    OBVIOUS
  <2>1. l \in DOMAIN a
    BY <1>1, Concat
  <2> QED BY <2>1, <1>1, Concat
<1>4. \A y : Has(a, y) => Before(s, Len(a) + 1, y)
  <2> SUFFICES ASSUME NEW y, NEW l \in DOMAIN a, a[l] = y PROVE Before(s, Len(a) + 1, y)
    BY DEF Has
  <2>1. l \in 1..(Len(a) + 1 - 1) /\ s[l] = y
    BY <1>1, Concat
  <2> QED BY <2>1
<1>5. ASSUME NEW k \in DOMAIN s
      PROVE  (k \in DOMAIN a /\ s[k] = a[k]) \/ (k = Len(a) + 1 /\ s[k] = Closes(n))
  <2>1. CASE k > Len(a) /\ k - Len(a) \in DOMAIN b /\ s[k] = b[k - Len(a)]
    <3>1. k \in Int /\ Len(a) \in Nat
      BY <1>1, <1>2, Concat
    <3>2. k - Len(a) = 1
      BY <2>1, <1>1
    <3>3. k = Len(a) + 1
      BY <3>1, <3>2
    <3> QED BY <2>1, <3>2, <3>3, <1>1
  <2> QED BY <2>1, <1>1, Concat
<1>6. \A k \in DOMAIN a, m \in Nodes : a[k] = Closes(m) =>
         /\ m \in MountedNodes => Before(a, k, Umounts(MountPoint(m)))
         /\ \A c \in Children(m) : type[c] = "crypt" => Before(a, k, Closes(c))
  BY DEF Prepared
<1>7. \A m : Closes(m) = Closes(n) => m = n
  BY DEF Closes
<1> HIDE DEF s, Before
<1>8. \A k \in DOMAIN s, m \in Nodes : s[k] = Closes(m) =>
         /\ m \in MountedNodes => Before(s, k, Umounts(MountPoint(m)))
         /\ \A c \in Children(m) : type[c] = "crypt" => Before(s, k, Closes(c))
  BY <1>3, <1>4, <1>5, <1>6, <1>7
<1>9. Prepared(s)
  BY <1>8 DEF Prepared, Before
<1>10. s = a \o <<Closes(n)>>
  BY DEF s, b
<1> QED BY <1>2, <1>9, <1>10

\* What has been collected after the first i devices of v.
Typed(found) == found \in [points : Seq(Points), commands : Seq(Command)]
Seen(found, n) ==
  /\ n \in MountedNodes => Has(found.points, MountPoint(n))
  /\ type[n] = "crypt" => Has(found.commands, Closes(n))
SoFar(found, v, i) ==
  /\ Typed(found) /\ Covered(found)
  /\ \A j \in 1..i : Seen(found, v[j])
  /\ ChildrenFirst(v) => Prepared(found.commands)

\* Before the closing, if any: the umount, if any.
LEMMA CollectUmount ==
  ASSUME Tree, Rooted, Mounted, NEW found, Typed(found), Covered(found), NEW n \in Nodes
  PROVE  \E points, mid :
           /\ Collect(found, n) =
                [points |-> points,
                 commands |-> mid \o IF type[n] = "crypt" THEN <<Closes(n)>> ELSE <<>>]
           /\ points \in Seq(Points) /\ mid \in Seq(Command)
           /\ \A p : Has(found.points, p) => Has(points, p)
           /\ \A c : Has(found.commands, c) => Has(mid, c)
           /\ \A p : Has(points, p) => Has(mid, Umounts(p))
           /\ n \in MountedNodes => Has(points, MountPoint(n))
           /\ Prepared(found.commands) => Prepared(mid)
<1> DEFINE up == IF NewPoint(found, n) THEN <<MountPoint(n)>> ELSE <<>>
<1> DEFINE um == [i \in DOMAIN up |-> Umounts(up[i])]
<1> DEFINE points == found.points \o up
<1> DEFINE mid == found.commands \o um
<1>1. Collect(found, n) =
        [points |-> points,
         commands |-> mid \o IF type[n] = "crypt" THEN <<Closes(n)>> ELSE <<>>]
  BY DEF Collect, Umounts, Closes
<1>2. CASE NewPoint(found, n)
  <2>1. MountPoint(n) \in Points /\ n \in MountedNodes
    BY <1>2, MountPointIs DEF NewPoint
  <2>2. up \in Seq(Points) /\ DOMAIN up = 1..1 /\ up[1] = MountPoint(n)
    BY <1>2, <2>1
  <2> HIDE DEF up
  <2>3. um \in Seq(Command) /\ DOMAIN um = 1..1 /\ um[1] = Umounts(MountPoint(n))
    <3>1. Umounts(MountPoint(n)) \in Command
      BY <2>1 DEF Umounts, Command
    <3>2. um = <<Umounts(MountPoint(n))>>
      BY <2>2
    <3> HIDE DEF um
    <3> QED BY <3>1, <3>2
  <2> HIDE DEF um
  <2>4. points \in Seq(Points) /\ mid \in Seq(Command)
    BY <2>2, <2>3, Concat DEF Typed
  <2>5. \A p : Has(points, p) <=> Has(found.points, p) \/ p = MountPoint(n)
    <3>1. \A p : Has(up, p) <=> p = MountPoint(n)
      BY <2>2 DEF Has
    <3> QED BY <3>1, <2>2, HasEither DEF Typed
  <2>6. \A c : Has(mid, c) <=> Has(found.commands, c) \/ c = Umounts(MountPoint(n))
    <3>1. \A c : Has(um, c) <=> c = Umounts(MountPoint(n))
      BY <2>3 DEF Has
    <3> QED BY <3>1, <2>3, HasEither DEF Typed
  <2>7. Prepared(found.commands) => Prepared(mid)
    <3>1. Prepared(um)
      BY <2>3 DEF Prepared, Umounts, Closes
    <3> QED BY <3>1, <2>3, PreparedTwo DEF Typed
  <2> HIDE DEF points, mid
  <2>8. \A p : Has(points, p) => Has(mid, Umounts(p))
    BY <2>5, <2>6 DEF Covered
  <2> QED BY <1>1, <2>4, <2>5, <2>6, <2>7, <2>8
<1>3. CASE ~NewPoint(found, n)
  <2>1. points = found.points
    BY <1>3, ConcatEmptySeq DEF Typed
  <2>2. mid = found.commands
    <3>1. um = <<>>
      BY <1>3
    <3> HIDE DEF um
    <3> QED BY <3>1, ConcatEmptySeq DEF Typed
  <2>3. n \in MountedNodes => Has(found.points, MountPoint(n))
    BY <1>3, LenProperties DEF NewPoint, Contains, Has, Typed
  <2> HIDE DEF points, mid
  <2> QED BY <1>1, <2>1, <2>2, <2>3 DEF Typed, Covered
<1> QED BY <1>2, <1>3

LEMMA CollectStep ==
  ASSUME Tree, Rooted, Mounted, NEW v \in Seq(Nodes), NEW i \in Nat, i + 1 \in DOMAIN v,
         NEW found, SoFar(found, v, i)
  PROVE  SoFar(Collect(found, v[i + 1]), v, i + 1)
<1> DEFINE n == v[i + 1]
<1>1. n \in Nodes
  BY ElementOfSeq, LenProperties
<1>2. PICK points, mid :
           /\ Collect(found, n) =
                [points |-> points,
                 commands |-> mid \o IF type[n] = "crypt" THEN <<Closes(n)>> ELSE <<>>]
           /\ points \in Seq(Points) /\ mid \in Seq(Command)
           /\ \A p : Has(found.points, p) => Has(points, p)
           /\ \A c : Has(found.commands, c) => Has(mid, c)
           /\ \A p : Has(points, p) => Has(mid, Umounts(p))
           /\ n \in MountedNodes => Has(points, MountPoint(n))
           /\ Prepared(found.commands) => Prepared(mid)
  BY <1>1, CollectUmount DEF SoFar
<1> DEFINE last == IF type[n] = "crypt" THEN <<Closes(n)>> ELSE <<>>
<1> DEFINE new == Collect(found, n)
<1>3. last \in Seq(Command) /\ (type[n] = "crypt" => Has(last, Closes(n)))
  <2>1. CASE type[n] = "crypt"
    <3>1. Closes(n) \in Command
      BY <1>1, <2>1 DEF Closes, Command, Crypts
    <3>2. last = <<Closes(n)>>
      BY <2>1
    <3> HIDE DEF last
    <3> QED BY <3>1, <3>2 DEF Has
  <2> QED BY <2>1
<1>4. /\ new = [points |-> points, commands |-> mid \o last]
      /\ new.points = points /\ new.commands = mid \o last
  BY <1>2
<1> HIDE DEF last, new
<1>5. \A c : Has(new.commands, c) <=> Has(mid, c) \/ Has(last, c)
  BY <1>2, <1>3, <1>4, HasEither
<1>6. Typed(new)
  <2>1. mid \o last \in Seq(Command)
    BY <1>2, <1>3, Concat
  <2> QED BY <1>2, <1>4, <2>1 DEF Typed
<1>7. Covered(new)
  BY <1>2, <1>4, <1>5 DEF Covered
<1>8. ASSUME NEW j \in 1..(i + 1) PROVE Seen(new, v[j])
  <2>1. CASE j = i + 1
    BY <2>1, <1>2, <1>3, <1>4, <1>5 DEF Seen
  <2>2. CASE j \in 1..i
    <3>1. Seen(found, v[j])
      BY <2>2 DEF SoFar
    <3> QED BY <3>1, <1>2, <1>4, <1>5 DEF Seen
  <2> QED BY <2>1, <2>2
<1>9. ASSUME ChildrenFirst(v) PROVE Prepared(new.commands)
  <2>1. Prepared(mid)
    BY <1>2, <1>9 DEF SoFar
  <2>2. CASE type[n] = "crypt"
    <3>1. n \in Crypts /\ last = <<Closes(n)>>
      BY <1>1, <2>2 DEF Crypts, last
    <3>2. ASSUME NEW c \in Children(n), type[c] = "crypt" PROVE Has(mid, Closes(c))
      <4>1. PICK j \in 1..i : v[j] = c
        BY <1>9 DEF ChildrenFirst
      <4>2. Has(found.commands, Closes(c))
        BY <4>1, <3>2 DEF SoFar, Seen
      <4> QED BY <4>2, <1>2
    <3>3. n \in MountedNodes => Has(mid, Umounts(MountPoint(n)))
      BY <1>2
    <3>4. Prepared(mid \o <<Closes(n)>>)
      BY <1>2, <2>1, <3>1, <3>2, <3>3, PreparedOne
    <3> QED BY <1>4, <3>1, <3>4
  <2>3. CASE type[n] # "crypt"
    <3>1. last = <<>>
      BY <2>3 DEF last
    <3>2. mid \o <<>> = mid
      BY <1>2, ConcatEmptySeq
    <3> QED BY <1>4, <2>1, <3>1, <3>2
  <2> QED BY <2>2, <2>3
<1>10. SoFar(new, v, i + 1)
  BY <1>6, <1>7, <1>8, <1>9 DEF SoFar
<1> QED BY <1>10 DEF new

\* Collected, as its definition says.
LEMMA CollectedIs ==
  ASSUME NEW v, Len(v) \in Nat
  PROVE  \E h : /\ h = [i \in 0..Len(v) |-> IF i = 0 THEN [points |-> <<>>, commands |-> <<>>]
                                            ELSE Collect(h[i - 1], v[i])]
                /\ Collected(v) = h[Len(v)]
<1> DEFINE N == Len(v)
<1> DEFINE Found(g, i) ==
      IF i = 0 THEN [points |-> <<>>, commands |-> <<>>] ELSE Collect(g[i - 1], v[i])
<1> DEFINE S == {m \in Nat : \E g : \A i \in 0..N : i <= m => g[i] = Found(g, i)}
<1>1. 0 \in S
  <2> DEFINE g == [i \in 0..N |-> [points |-> <<>>, commands |-> <<>>]]
  <2>1. ASSUME NEW i \in 0..N, i <= 0 PROVE g[i] = Found(g, i)
    <3>1. i = 0
      BY <2>1
    <3> QED BY <3>1
  <2> HIDE DEF g, Found
  <2> QED BY <2>1
<1>2. ASSUME NEW m \in Nat, m \in S PROVE m + 1 \in S
  <2>1. PICK g : \A i \in 0..N : i <= m => g[i] = Found(g, i)
    BY <1>2
  <2> DEFINE h == [i \in 0..N |-> IF i <= m THEN g[i] ELSE Collect(g[i - 1], v[i])]
  <2>2. ASSUME NEW i \in 0..N, i <= m + 1 PROVE h[i] = Found(h, i)
    <3>1. CASE i = 0
      BY <3>1, <2>1
    <3>2. CASE i # 0
      <4>1. i - 1 \in 0..N /\ i - 1 <= m /\ h[i - 1] = g[i - 1]
        BY <2>2, <3>2
      <4>2. h[i] = Collect(g[i - 1], v[i])
        BY <2>1, <2>2, <3>2
      <4> HIDE DEF h
      <4> QED BY <4>1, <4>2, <3>2
    <3> QED BY <3>1, <3>2
  <2> HIDE DEF h, Found
  <2> QED BY <2>2
<1>3. N \in S
  <2> HIDE DEF S
  <2> QED BY <1>1, <1>2, Induction
<1>4. PICK g : \A i \in 0..N : i <= N => g[i] = Found(g, i)
  BY <1>3
<1> DEFINE f == [i \in 0..N |-> g[i]]
<1>5. f = [i \in 0..N |-> Found(f, i)]
  <2>1. ASSUME NEW i \in 0..N PROVE f[i] = Found(f, i)
    <3>1. f[i] = g[i] /\ (i # 0 => f[i - 1] = g[i - 1])
      OBVIOUS
    <3>2. g[i] = Found(g, i)
      BY <1>4
    <3> HIDE DEF f
    <3> QED BY <3>1, <3>2
  <2> HIDE DEF Found
  <2> QED BY <2>1
<1> DEFINE h == CHOOSE h : h = [i \in 0..N |-> Found(h, i)]
<1>6. h = [i \in 0..N |-> Found(h, i)]
  <2> HIDE DEF f, Found
  <2> QED BY <1>5
<1>7. Collected(v) = h[N]
  BY DEF Collected
<1> HIDE DEF h
<1> QED BY <1>6, <1>7

LEMMA CollectedSoFar ==
  ASSUME Tree, Rooted, Mounted, NEW v \in Seq(Nodes)
  PROVE  SoFar(Collected(v), v, Len(v))
<1>n. Len(v) \in Nat /\ DOMAIN v = 1..Len(v)
  BY LenProperties
<1>1. PICK h : /\ h = [i \in 0..Len(v) |-> IF i = 0 THEN [points |-> <<>>, commands |-> <<>>]
                                           ELSE Collect(h[i - 1], v[i])]
               /\ Collected(v) = h[Len(v)]
  BY CollectedIs, <1>n
<1> DEFINE S == {i \in Nat : i <= Len(v) => SoFar(h[i], v, i)}
<1>2. 0 \in S
  <2>1. h[0] = [points |-> <<>>, commands |-> <<>>]
    BY <1>1, <1>n
  <2> DEFINE e == [points |-> <<>>, commands |-> <<>>]
  <2>2. SoFar(e, v, 0)
    BY DEF SoFar, Typed, Covered, Has, Prepared
  <2> HIDE DEF e
  <2> QED BY <2>1, <2>2 DEF e
<1>3. ASSUME NEW i \in Nat, i \in S PROVE i + 1 \in S
  <2> SUFFICES ASSUME i + 1 <= Len(v) PROVE SoFar(h[i + 1], v, i + 1)
    OBVIOUS
  <2>1. SoFar(h[i], v, i) /\ i + 1 \in DOMAIN v
    BY <1>3, <1>n
  <2>2. h[i + 1] = Collect(h[i], v[i + 1])
    <3>1. i + 1 \in 0..Len(v) /\ i + 1 # 0 /\ (i + 1) - 1 = i
      BY <1>n
    <3> QED BY <1>1, <3>1
  <2>3. SoFar(Collect(h[i], v[i + 1]), v, i + 1)
    BY <2>1, CollectStep
  <2> QED BY <2>2, <2>3
<1>4. Len(v) \in S
  <2> HIDE DEF S
  <2> QED BY <1>2, <1>3, Induction, <1>n
<1> QED BY <1>1, <1>4, <1>n

\* A plan takes down what is mounted on some disks and closes their containers.
Plan(commands, disks) ==
  /\ commands \in Seq(Command) /\ Prepared(commands)
  /\ \A n \in MountedNodes : DiskOf[n] \in disks => Has(commands, Umounts(MountPoint(n)))
  /\ \A n \in there \cap Crypts : DiskOf[n] \in disks => Has(commands, Closes(n))

\* What the listing says of a disk (BlockDevice): on Linux no mount point means that
\* nothing on it is mounted, and its commands are a plan to take it down.
LEMMA ListingIs ==
  ASSUME Tree, Rooted, Mounted, NEW d \in Disks
  PROVE  /\ BlockDevice(d).points \in Seq(Points) /\ BlockDevice(d).commands \in Seq(Command)
         /\ Platform = "linux" =>
              /\ BlockDevice(d).points = <<>> => \A n \in MountedNodes : DiskOf[n] # d
              /\ Plan(BlockDevice(d).commands, {d})
<1> DEFINE v == Visited(d)
<1> DEFINE found == Collected(v)
<1>1. v \in Seq(Nodes) /\ SoFar(found, v, Len(v))
  BY VisitedIs, CollectedSoFar
<1>2. DOMAIN v = 1..Len(v)
  BY <1>1, LenProperties
<1>3. BlockDevice(d) =
        [found EXCEPT !.commands = IF Platform = "macos"
           THEN [i \in DOMAIN found.points |-> [cmd |-> "umount", point |-> found.points[i]]]
           ELSE @]
  BY DEF BlockDevice
<1>4. Typed(found) /\ Covered(found)
  BY <1>1 DEF SoFar
<1>5. CASE Platform = "macos"
  <2> DEFINE umounts == [i \in DOMAIN found.points |-> Umounts(found.points[i])]
  <2>1. umounts \in Seq(Command)
    <3>1. DOMAIN found.points = 1..Len(found.points) /\ Len(found.points) \in Nat
      BY <1>4, LenProperties DEF Typed
    <3>2. \A i \in DOMAIN found.points : Umounts(found.points[i]) \in Command
      BY <1>4, <3>1, ElementOfSeq DEF Typed, Umounts, Command
    <3> QED BY <3>1, <3>2
  <2>2. BlockDevice(d) = [found EXCEPT !.commands = umounts]
    BY <1>3, <1>5 DEF Umounts
  <2> HIDE DEF umounts, found
  <2> QED BY <1>4, <1>5, <2>1, <2>2 DEF Typed
<1>6. CASE Platform = "linux"
  <2>1. BlockDevice(d).points = found.points /\ BlockDevice(d).commands = found.commands
    BY <1>3, <1>6
  <2>2. ASSUME NEW n \in there, DiskOf[n] = d PROVE Seen(found, n)
    <3>1. PICK j \in DOMAIN v : v[j] = n
      BY <1>6, <2>2, VisitedIs DEF Has
    <3> QED BY <1>1, <1>2, <3>1 DEF SoFar
  <2>3. Prepared(found.commands)
    BY <1>1, <1>6, VisitedIs DEF SoFar
  <2>4. MountedNodes \subseteq there
    BY MountPointIs
  <2> HIDE DEF v, found
  <2>5. ASSUME NEW n \in MountedNodes, DiskOf[n] = d
        PROVE  found.points # <<>> /\ Has(found.commands, Umounts(MountPoint(n)))
    <3>1. Has(found.points, MountPoint(n))
      BY <2>2, <2>4, <2>5 DEF Seen
    <3> QED BY <3>1, <1>4 DEF Covered, Has
  <2>6. \A n \in there \cap Crypts : DiskOf[n] = d => Has(found.commands, Closes(n))
    BY <2>2 DEF Seen, Crypts
  <2> QED BY <1>4, <2>1, <2>3, <2>5, <2>6 DEF Plan, Typed
<1> QED BY <1>5, <1>6, PlatformAssumption

\* The commands of all disks that were listed are a plan to take all of them down.
LEMMA AllCommandsAre ==
  ASSUME NEW devs, fit \subseteq Disks, DOMAIN devs = fit,
         \A d \in fit : devs[d].commands \in Seq(Command)
  PROVE  /\ AllCommands(devs) \in Seq(Command)
         /\ (\A d \in fit : Plan(devs[d].commands, {d})) /\ Tree /\ Rooted /\ Mounted
              => Plan(AllCommands(devs), fit)
<1> DEFINE s == [d \in Disks |-> IF d \in DOMAIN devs THEN devs[d].commands ELSE <<>>]
<1> DEFINE Plans == (\A d \in fit : Plan(devs[d].commands, {d})) /\ Tree /\ Rooted /\ Mounted
<1> DEFINE Listed(d) == {e \in fit : e <= d}
<1>n. NumDisks \in Nat /\ Disks = 1..NumDisks
  BY NodeAssumption DEF Disks
<1>1. PICK h : /\ h = [d \in 0..NumDisks |-> IF d = 0 THEN <<>> ELSE h[d - 1] \o s[d]]
               /\ Joined(s, NumDisks) = h[NumDisks]
  BY JoinedIs, <1>n
<1>2. ASSUME NEW d \in Disks
      PROVE  s[d] \in Seq(Command) /\ (Plans => Plan(s[d], {d} \cap fit))
  <2>1. CASE d \in fit
    <3>1. s[d] = devs[d].commands /\ {d} \cap fit = {d}
      BY <2>1
    <3> HIDE DEF s
    <3> QED BY <2>1, <3>1
  <2>2. CASE d \notin fit
    <3>1. s[d] = <<>> /\ {d} \cap fit = {}
      BY <2>2
    <3>2. <<>> \in Seq(Command) /\ Plan(<<>>, {})
      BY DEF Plan, Prepared
    <3> HIDE DEF s
    <3> QED BY <3>1, <3>2
  <2> QED BY <2>1, <2>2
<1> HIDE DEF s, Plans
<1> DEFINE Upto(d) == h[d] \in Seq(Command) /\ (Plans => Plan(h[d], Listed(d)))
<1> DEFINE S == {d \in Nat : d <= NumDisks => Upto(d)}
<1>3. 0 \in S
  <2>1. h[0] = <<>> /\ Listed(0) = {}
    BY <1>1, <1>n
  <2>2. <<>> \in Seq(Command) /\ Plan(<<>>, {})
    BY DEF Plan, Prepared
  <2> HIDE DEF Listed
  <2> QED BY <2>1, <2>2
<1>4. ASSUME NEW d \in Nat, d \in S PROVE d + 1 \in S
  <2> SUFFICES ASSUME d + 1 <= NumDisks PROVE Upto(d + 1)
    OBVIOUS
  <2>1. Upto(d) /\ d + 1 \in Disks
    BY <1>4, <1>n
  <2>2. h[d + 1] = h[d] \o s[d + 1]
    <3>1. d + 1 \in 0..NumDisks /\ d + 1 # 0 /\ (d + 1) - 1 = d
      BY <1>n
    <3> QED BY <1>1, <3>1
  <2>3. Listed(d + 1) = Listed(d) \cup ({d + 1} \cap fit)
    <3>1. \A e \in fit : e \in Nat
      BY <1>n
    <3>2. \A e \in fit : e <= d + 1 <=> e <= d \/ e = d + 1
      BY <3>1
    <3> QED BY <3>2
  <2>4. s[d + 1] \in Seq(Command) /\ (Plans => Plan(s[d + 1], {d + 1} \cap fit))
    BY <1>2, <2>1
  <2> HIDE DEF Listed
  <2>5. h[d + 1] \in Seq(Command)
    BY <2>1, <2>2, <2>4, Concat
  <2>6. ASSUME Plans PROVE Plan(h[d + 1], Listed(d + 1))
    <3>1. Plan(h[d], Listed(d)) /\ Plan(s[d + 1], {d + 1} \cap fit)
      BY <2>1, <2>4, <2>6
    <3>2. Prepared(h[d + 1])
      BY <2>2, <3>1, PreparedTwo DEF Plan
    <3>3. \A c : Has(h[d + 1], c) <=> Has(h[d], c) \/ Has(s[d + 1], c)
      BY <2>1, <2>2, <2>4, HasEither
    <3> QED BY <2>3, <2>5, <3>1, <3>2, <3>3 DEF Plan
  <2> QED BY <2>5, <2>6
<1>5. Upto(NumDisks)
  <2>1. NumDisks \in S
    <3> HIDE DEF S
    <3> QED BY <1>3, <1>4, Induction, <1>n
  <2> QED BY <2>1, <1>n
<1>6. AllCommands(devs) = h[NumDisks]
  BY <1>1 DEF AllCommands, s
<1>7. Listed(NumDisks) = fit
  <2>1. \A d \in fit : d <= NumDisks
    BY <1>n
  <2> QED BY <2>1
<1> HIDE DEF Listed
<1>8. AllCommands(devs) \in Seq(Command) /\ (Plans => Plan(AllCommands(devs), fit))
  BY <1>5, <1>6, <1>7
<1> QED BY <1>8 DEF Plans
-----------------------------------------------------------------------------
(* What the owner's commands leave of a plan.                              *)

\* MountPointIs, in a form that also speaks of the next state.
MountFacts ==
  /\ \A i \in DOMAIN mounts : /\ mounts[i].node \in MountedNodes
                              /\ MountPoint(mounts[i].node) = mounts[i].point
  /\ \A n \in MountedNodes : MountPoint(n) \in Points
  /\ MountedNodes \subseteq there

LEMMA MountPointOf == Mounted => MountFacts
BY MountPointIs DEF MountFacts

\* What does not touch the tree leaves every device on its disk.
LEMMA SameDisks == ASSUME UNCHANGED tree PROVE DiskOf' = DiskOf /\ Crypts' = Crypts /\ Command' = Command
<1>1. DiskOf' = DiskOf
  BY DEF DiskOf, tree
<1>2. Crypts' = Crypts
  BY DEF Crypts, tree
<1> QED BY <1>1, <1>2 DEF Command

LEMMA RemoveAtIs ==
  ASSUME NEW S, NEW s \in Seq(S), NEW i \in DOMAIN s
  PROVE  /\ RemoveAt(s, i) \in Seq(S) /\ DOMAIN RemoveAt(s, i) = 1..(Len(s) - 1)
         /\ \A j \in 1..(Len(s) - 1) : RemoveAt(s, i)[j] = s[IF j < i THEN j ELSE j + 1]
<1> DEFINE a == SubSeq(s, 1, i - 1)
<1> DEFINE b == SubSeq(s, i + 1, Len(s))
<1>1. Len(s) \in Nat /\ i \in 1..Len(s) /\ \A j \in 1..Len(s) : s[j] \in S
  BY LenProperties, ElementOfSeq
<1>2. /\ a \in Seq(S) /\ Len(a) = i - 1
      /\ \A j \in 1..(i - 1) : a[j] = s[j]
  <2>1. /\ a \in Seq(S) /\ Len(a) = IF 1 <= i - 1 THEN i - 1 - 1 + 1 ELSE 0
        /\ \A j \in 1..(i - 1 - 1 + 1) : a[j] = s[1 + j - 1]
    BY <1>1, SubSeqProperties
  <2> HIDE DEF a
  <2> QED BY <1>1, <2>1
<1>3. /\ b \in Seq(S) /\ Len(b) = Len(s) - i
      /\ \A j \in 1..(Len(s) - i) : b[j] = s[i + j]
  <2>1. /\ b \in Seq(S) /\ Len(b) = IF i + 1 <= Len(s) THEN Len(s) - (i + 1) + 1 ELSE 0
        /\ \A j \in 1..(Len(s) - (i + 1) + 1) : b[j] = s[(i + 1) + j - 1]
    BY <1>1, SubSeqProperties
  <2> HIDE DEF b
  <2> QED BY <1>1, <2>1
<1> HIDE DEF a, b
<1>4. a \o b \in Seq(S) /\ Len(a \o b) = Len(s) - 1
      /\ \A j \in 1..(Len(s) - 1) : (a \o b)[j] = IF j <= i - 1 THEN a[j] ELSE b[j - (i - 1)]
  <2>1. /\ a \o b \in Seq(S) /\ Len(a \o b) = Len(a) + Len(b)
        /\ \A j \in 1..(Len(a) + Len(b)) : (a \o b)[j] = IF j <= Len(a) THEN a[j] ELSE b[j - Len(a)]
    BY <1>2, <1>3, ConcatProperties
  <2>2. Len(a) + Len(b) = Len(s) - 1
    BY <1>1, <1>2, <1>3
  <2> QED BY <1>2, <2>1, <2>2
<1>5. \A j \in 1..(Len(s) - 1) : (a \o b)[j] = s[IF j < i THEN j ELSE j + 1]
  <2> TAKE j \in 1..(Len(s) - 1)
  <2>1. CASE j < i
    BY <1>1, <1>2, <1>4, <2>1
  <2>2. CASE ~(j < i)
    <3>1. j - (i - 1) \in 1..(Len(s) - i) /\ i + (j - (i - 1)) = j + 1
      BY <1>1, <2>2
    <3>2. b[j - (i - 1)] = s[j + 1]
      BY <1>3, <3>1
    <3> QED BY <1>1, <1>4, <2>2, <3>2
  <2> QED BY <2>1, <2>2
<1>6. RemoveAt(s, i) = a \o b
  BY DEF RemoveAt, a, b
<1> QED BY <1>4, <1>5, <1>6, LenProperties

\* When the first command is behind him, the rest is a plan for what is still there.
LEMMA PlanGoesOn ==
  ASSUME NEW disks, Rooted, Plan(todo, disks), todo # <<>>, todo' = Tail(todo), UNCHANGED tree,
         there' \subseteq there, MountedNodes' \subseteq MountedNodes,
         \A n \in MountedNodes' : /\ MountPoint(n)' = MountPoint(n)
                                  /\ Head(todo) # Umounts(MountPoint(n)),
         \A n \in there' : Head(todo) # Closes(n)
  PROVE  Plan(todo, disks)'
<1>1. /\ todo \in Seq(Command) /\ todo' \in Seq(Command) /\ Len(todo) \in Nat
      /\ DOMAIN todo = 1..Len(todo) /\ DOMAIN todo' = 1..(Len(todo) - 1)
      /\ \A i \in DOMAIN todo' : todo'[i] = todo[i + 1]
      /\ Head(todo) = todo[1]
  <2>1. todo \in Seq(Command)
    BY DEF Plan
  <2>2. /\ Tail(todo) \in Seq(Command) /\ Len(Tail(todo)) = Len(todo) - 1
        /\ \A i \in 1..Len(Tail(todo)) : Tail(todo)[i] = todo[i + 1]
    BY <2>1, HeadTailProperties
  <2> QED BY <2>1, <2>2, LenProperties
<1>2. \A c : Has(todo, c) /\ c # Head(todo) => Has(todo', c)
  <2> SUFFICES ASSUME NEW c, NEW i \in DOMAIN todo, todo[i] = c, c # Head(todo) PROVE Has(todo', c)
    BY DEF Has
  <2>1. i - 1 \in DOMAIN todo' /\ todo'[i - 1] = c
    <3>1. i # 1 /\ i \in 1..Len(todo)
      BY <1>1
    <3>2. i - 1 \in 1..(Len(todo) - 1) /\ (i - 1) + 1 = i
      BY <3>1, <1>1
    <3> QED BY <1>1, <3>2
  <2> QED BY <2>1 DEF Has
<1>3. \A k \in DOMAIN todo' : \A c :
        (\E l \in 1..k : todo[l] = c) /\ c # Head(todo) => \E l \in 1..(k - 1) : todo'[l] = c
  <2> SUFFICES ASSUME NEW k \in DOMAIN todo', NEW l \in 1..k, todo[l] # Head(todo)
               PROVE  \E m \in 1..(k - 1) : todo'[m] = todo[l]
    OBVIOUS
  <2>1. l - 1 \in 1..(k - 1) /\ l - 1 \in DOMAIN todo' /\ (l - 1) + 1 = l
    BY <1>1
  <2> QED BY <1>1, <2>1
<1>4. \A n \in Nodes : Children(n)' \subseteq Children(n)
  BY DEF Children, tree
<1>5. Crypts' = Crypts /\ Command' = Command /\ DiskOf' = DiskOf /\ type' = type
  BY SameDisks DEF tree
<1>6. Prepared(todo)'
  <2> SUFFICES ASSUME NEW k \in DOMAIN todo', NEW n \in Nodes, todo'[k] = Closes(n)
               PROVE  /\ n \in MountedNodes' =>
                            \E l \in 1..(k - 1) : todo'[l] = Umounts(MountPoint(n))
                      /\ \A c \in Children(n)' : type[c] = "crypt" =>
                            \E l \in 1..(k - 1) : todo'[l] = Closes(c)
    BY <1>5 DEF Prepared, Nodes
  <2>1. k + 1 \in DOMAIN todo /\ todo[k + 1] = Closes(n) /\ (k + 1) - 1 = k
    BY <1>1
  <2>2. /\ n \in MountedNodes => \E l \in 1..k : todo[l] = Umounts(MountPoint(n))
        /\ \A c \in Children(n) : type[c] = "crypt" => \E l \in 1..k : todo[l] = Closes(c)
    BY <2>1 DEF Plan, Prepared
  <2>3. ASSUME n \in MountedNodes' PROVE \E l \in 1..(k - 1) : todo'[l] = Umounts(MountPoint(n))
    BY <1>3, <2>2, <2>3
  <2>4. ASSUME NEW c \in Children(n)', type[c] = "crypt"
        PROVE  \E l \in 1..(k - 1) : todo'[l] = Closes(c)
    <3>1. c \in there' /\ c \in Children(n)
      BY <1>4 DEF Children
    <3> QED BY <1>3, <2>2, <2>4, <3>1
  <2> QED BY <2>3, <2>4
<1>7. \A n \in MountedNodes' : DiskOf[n] \in disks => Has(todo', Umounts(MountPoint(n)))
  BY <1>2 DEF Plan
<1>8. \A n \in there' \cap Crypts : DiskOf[n] \in disks => Has(todo', Closes(n))
  BY <1>2 DEF Plan
<1> QED BY <1>1, <1>5, <1>6, <1>7, <1>8 DEF Plan
-----------------------------------------------------------------------------
(* The types, step by step.                                                *)

TargetInv ==
  /\ TargetTypeOK /\ Tree /\ Mounted
  /\ step = "choose" => DOMAIN devices = fit

LEMMA SeqAlso ==
  ASSUME NEW S, NEW T, NEW s \in Seq(S), \A i \in DOMAIN s : s[i] \in T
  PROVE  s \in Seq(T)
<1>1. Len(s) \in Nat /\ s \in [1..Len(s) -> S] /\ DOMAIN s = 1..Len(s)
  BY LenProperties
<1>2. s \in [1..Len(s) -> T]
  BY <1>1
<1> QED BY <1>1, <1>2

LEMMA TargetStarts == ASSUME TargetInit PROVE TargetInv
<1>1. Tree
  BY DEF TargetInit, Tree
<1>2. \A n \in there : parent[n] \in there \cup {0}
  <2> TAKE n \in there
  <2>1. n \in Nodes /\ type[n] \in {"disk", "part"}
    BY DEF TargetInit
  <2>2. parent[n] = 0 \/ parent[n] \in Disks
    BY <2>1 DEF TargetInit
  <2>3. \A d \in Disks : d \in Nodes /\ type[d] = "disk"
    BY NodeAssumption DEF TargetInit, Disks, Nodes
  <2> QED BY <2>2, <2>3 DEF TargetInit
<1>3. Mounted
  BY DEF TargetInit, Mounted
<1>4. TargetTypeOK
  BY <1>2, TouchAssumption DEF TargetInit, TargetTypeOK
<1> QED BY <1>1, <1>3, <1>4 DEF TargetInv, TargetInit

\* Nothing that is mounted, opened or closed changes.
LEMMA StillMounted ==
  ASSUME TargetInv, UNCHANGED <<tree, there, mounts>>
  PROVE  /\ Tree' /\ Mounted' /\ Rooted' /\ Crypts' = Crypts /\ Command' = Command
         /\ DiskOf' = DiskOf /\ MountedNodes' = MountedNodes
         /\ \A n : MountPoint(n)' = MountPoint(n)
<1>1. Tree' /\ Mounted' /\ Rooted'
  BY DEF TargetInv, TargetTypeOK, Tree, Mounted, Rooted, tree
<1>2. MountedNodes' = MountedNodes /\ \A n : MountPoint(n)' = MountPoint(n)
  BY DEF MountedNodes, MountPoint, Range
<1> QED BY <1>1, <1>2, SameDisks

LEMMA ListDevicesTypes == ASSUME TargetInv, ListDevices PROVE TargetInv'
<1> DEFINE devs == [d \in fit |-> BlockDevice(d)]
<1>1. devices' = devs /\ UNCHANGED <<tree, there, mounts, touches>> /\ target' = 0
      /\ quiet' = TRUE /\ plain' = Plain
  BY DEF ListDevices
<1>2. \/ step' = "advised" /\ todo' = AllCommands(devs)
      \/ step' = "choose" /\ todo' = <<>>
  BY DEF ListDevices
<1>3. fit \subseteq Disks /\ Rooted /\ Tree /\ Mounted
  BY DEF TargetInv, TargetTypeOK, Tree, Rooted
<1>4. \A d \in fit : devs[d].points \in Seq(Points) /\ devs[d].commands \in Seq(Command)
  BY <1>3, ListingIs
<1> HIDE DEF devs
<1>5. DOMAIN devs = fit
  BY DEF devs
<1>6. todo' \in Seq(Command)
  <2>1. AllCommands(devs) \in Seq(Command) /\ <<>> \in Seq(Command)
    BY <1>3, <1>4, <1>5, AllCommandsAre, EmptySeq
  <2> QED BY <1>2, <2>1
<1>7. Tree' /\ Mounted' /\ Rooted' /\ Command' = Command
  BY <1>1, StillMounted
<1>8. Plain \in BOOLEAN
  BY DEF Plain
<1>9. TargetTypeOK'
  BY <1>1, <1>2, <1>4, <1>5, <1>6, <1>7, <1>8 DEF TargetInv, TargetTypeOK, Mounted, Rooted
<1> QED BY <1>1, <1>5, <1>7, <1>9 DEF TargetInv, tree

LEMMA ChooseTypes == ASSUME TargetInv, NEW d \in Disks, Choose(d) PROVE TargetInv'
<1>1. d \in fit /\ step = "choose" /\ target' = d
      /\ UNCHANGED <<tree, there, mounts, touches, devices, quiet, plain>>
  BY DEF Choose
<1>2. \/ step' = "advised" /\ todo' = devices[d].commands
      \/ step' = "confirm" /\ todo' = <<>>
  BY DEF Choose
<1>3. Tree' /\ Mounted' /\ Rooted' /\ Command' = Command
  BY <1>1, StillMounted
<1>4. todo' \in Seq(Command)
  <2>1. d \in DOMAIN devices
    BY <1>1 DEF TargetInv
  <2>2. devices[d].commands \in Seq(Command) /\ <<>> \in Seq(Command)
    BY <2>1, EmptySeq DEF TargetInv, TargetTypeOK
  <2> QED BY <1>2, <2>2
<1>5. TargetTypeOK'
  BY <1>1, <1>2, <1>3, <1>4 DEF TargetInv, TargetTypeOK, Mounted, Rooted
<1> QED BY <1>2, <1>3, <1>5 DEF TargetInv

\* Steps that only move the owner on.
LEMMA MoveTypes ==
  ASSUME TargetInv, UNCHANGED <<tree, there, mounts, touches, devices, target, todo, quiet, plain>>,
         step' = step \/ step' \in {"idle", "flash"}
  PROVE  TargetInv'
<1>1. Tree' /\ Mounted' /\ Rooted' /\ Command' = Command
  BY StillMounted
<1>2. TargetTypeOK'
  BY <1>1 DEF TargetInv, TargetTypeOK, Mounted, Rooted
<1> QED BY <1>1, <1>2 DEF TargetInv, tree

\* One mount fewer: the others stay where they are.
LEMMA OneFewer ==
  ASSUME TargetInv, NEW i \in DOMAIN mounts, mounts' = RemoveAt(mounts, i), UNCHANGED <<tree, there>>
  PROVE  /\ Mounted' /\ MountedNodes' \subseteq MountedNodes
         /\ \A n \in MountedNodes' : MountPoint(n)' = MountPoint(n)
         /\ \A n \in MountedNodes' : \E j \in DOMAIN mounts \ {i} : mounts[j].node = n
         /\ DOMAIN mounts' = 1..(Len(mounts) - 1) /\ Len(mounts) \in Nat
         /\ \A j \in DOMAIN mounts' : /\ (IF j < i THEN j ELSE j + 1) \in DOMAIN mounts \ {i}
                                      /\ mounts'[j] = mounts[IF j < i THEN j ELSE j + 1]
<1> DEFINE Mount1 == [node : there, point : Points]
<1> DEFINE K(j) == IF j < i THEN j ELSE j + 1
<1>1. mounts \in Seq(Mount1) /\ Len(mounts) \in Nat /\ DOMAIN mounts = 1..Len(mounts)
  BY LenProperties DEF TargetInv, Mounted
<1>2. /\ mounts' \in Seq(Mount1) /\ DOMAIN mounts' = 1..(Len(mounts) - 1)
      /\ \A j \in 1..(Len(mounts) - 1) : mounts'[j] = mounts[K(j)]
  <2> HIDE DEF Mount1
  <2> QED BY <1>1, RemoveAtIs
<1>3. \A j \in DOMAIN mounts' : K(j) \in DOMAIN mounts \ {i}
  BY <1>1, <1>2
<1>4. \A j, k \in DOMAIN mounts' : j # k => K(j) # K(k)
  BY <1>1, <1>2
<1> HIDE DEF K
<1>5. Mounted'
  <2>1. \A j, k \in DOMAIN mounts' : j # k => mounts'[j].node # mounts'[k].node
    BY <1>2, <1>3, <1>4 DEF TargetInv, Mounted
  <2> QED BY <1>2, <2>1 DEF Mounted
<1>6. ASSUME NEW n \in MountedNodes'
      PROVE  /\ n \in MountedNodes /\ MountPoint(n)' = MountPoint(n)
             /\ \E j \in DOMAIN mounts \ {i} : mounts[j].node = n
  <2>1. PICK j \in DOMAIN mounts' : mounts'[j].node = n
    BY <1>6 DEF MountedNodes
  <2>2. K(j) \in DOMAIN mounts \ {i} /\ mounts'[j] = mounts[K(j)]
    BY <1>2, <1>3
  <2>3. n \in MountedNodes /\ MountPoint(n) = mounts[K(j)].point
    BY <2>1, <2>2, MountPointIs DEF TargetInv
  <2>4. Mounted' => MountPoint(n)' = mounts'[j].point
    <3>1. Mounted' => MountFacts'
      BY MountPointOf, PTL
    <3> QED BY <3>1, <2>1 DEF MountFacts
  <2> QED BY <1>5, <2>1, <2>2, <2>3, <2>4
<1> QED BY <1>1, <1>2, <1>3, <1>5, <1>6 DEF K

\* An umount that works takes one mount away, one that fails none.
LEMMA UmountFacts ==
  ASSUME TargetInv, NEW point, Umount(point), UNCHANGED tree
  PROVE  /\ Mounted' /\ there' = there /\ MountedNodes' \subseteq MountedNodes
         /\ \A n \in MountedNodes' : MountPoint(n)' = MountPoint(n)
<1> DEFINE now == {i \in DOMAIN mounts : mounts[i].point = point /\ CanUmount(i)}
<1>1. there' = there
  BY DEF Umount
<1>2. CASE now = {}
  <2>1. mounts' = mounts
    BY <1>2 DEF Umount
  <2> QED BY <1>1, <2>1, StillMounted
<1>3. CASE now # {}
  <2>1. PICK i \in DOMAIN mounts : mounts' = RemoveAt(mounts, i)
    BY <1>3 DEF Umount
  <2> QED BY <1>1, <2>1, OneFewer
<1> QED BY <1>2, <1>3

\* A container is closed only when nothing is mounted from it and nothing is open in it.
LEMMA CloseFacts ==
  ASSUME TargetInv, NEW n, CryptsetupClose(n), UNCHANGED tree
  PROVE  /\ Mounted' /\ Rooted' /\ mounts' = mounts /\ there' \subseteq there
         /\ MountedNodes' = MountedNodes /\ \A m : MountPoint(m)' = MountPoint(m)
<1>1. mounts' = mounts /\ there' \in {there, there \ {n}} /\ (there' # there => ~Busy(n))
  BY DEF CryptsetupClose
<1>2. MountedNodes' = MountedNodes /\ \A m : MountPoint(m)' = MountPoint(m)
  BY <1>1 DEF MountedNodes, MountPoint, Range
<1>3. Rooted'
  BY <1>1 DEF TargetInv, TargetTypeOK, Rooted, Busy, Children, tree
<1>4. Mounted'
  <2>1. \A i \in DOMAIN mounts : mounts[i] \in [node : there, point : Points]
    BY ElementOfSeq, LenProperties DEF TargetInv, Mounted
  <2>2. \A i \in DOMAIN mounts : mounts[i].node \in MountedNodes
    BY MountPointIs DEF TargetInv
  <2>3. \A i \in DOMAIN mounts : mounts[i] \in [node : there', point : Points]
    BY <1>1, <2>1, <2>2 DEF Busy
  <2>4. mounts \in Seq([node : there', point : Points])
    BY <2>3, SeqAlso DEF TargetInv, Mounted
  <2> QED BY <1>1, <2>4 DEF TargetInv, Mounted
<1> QED BY <1>1, <1>2, <1>3, <1>4

LEMMA RunCommandTypes == ASSUME TargetInv, RunCommand PROVE TargetInv'
<1>1. /\ step = "advised" /\ todo # <<>> /\ todo' = Tail(todo)
      /\ UNCHANGED <<tree, touches, step, devices, target, quiet, plain>>
  BY DEF RunCommand
<1>2. Tree' /\ Command' = Command
  BY <1>1, SameDisks DEF TargetInv, Tree, tree
<1>3. Mounted' /\ Rooted'
  <2>1. CASE Umount(Head(todo).point)
    BY <1>1, <2>1, UmountFacts DEF TargetInv, TargetTypeOK, Rooted, tree
  <2>2. CASE CryptsetupClose(Head(todo).node)
    BY <1>1, <2>2, CloseFacts
  <2> QED BY <2>1, <2>2 DEF RunCommand
<1>4. todo' \in Seq(Command)
  BY <1>1, HeadTailProperties DEF TargetInv, TargetTypeOK
<1>5. TargetTypeOK'
  BY <1>1, <1>2, <1>3, <1>4 DEF TargetInv, TargetTypeOK, Mounted, Rooted
<1> QED BY <1>1, <1>2, <1>3, <1>5 DEF TargetInv

LEMMA UnlockTypes == ASSUME TargetInv, NEW n \in Nodes, Unlock(n) PROVE TargetInv'
<1>1. /\ touches < MaxTouches /\ touches' = touches + 1 /\ quiet' = FALSE
      /\ UNCHANGED <<tree, step, devices, target, todo, plain, mounts>>
      /\ parent[n] \in there /\ there' = there \cup {n}
  BY DEF Unlock, Touch
<1>2. Tree' /\ Command' = Command
  BY <1>1, SameDisks DEF TargetInv, Tree, tree
<1>3. Rooted'
  BY <1>1 DEF TargetInv, TargetTypeOK, Rooted, tree
<1>4. Mounted'
  <2>1. \A i \in DOMAIN mounts : mounts[i] \in [node : there, point : Points]
    BY ElementOfSeq, LenProperties DEF TargetInv, Mounted
  <2>2. \A i \in DOMAIN mounts : mounts[i] \in [node : there', point : Points]
    BY <1>1, <2>1
  <2>3. mounts \in Seq([node : there', point : Points])
    BY <2>2, SeqAlso DEF TargetInv, Mounted
  <2> QED BY <1>1, <2>3 DEF TargetInv, Mounted
<1>5. touches' \in 0..MaxTouches
  BY <1>1, TouchAssumption DEF TargetInv, TargetTypeOK
<1>6. TargetTypeOK'
  BY <1>1, <1>2, <1>3, <1>4, <1>5 DEF TargetInv, TargetTypeOK, Mounted, Rooted
<1> QED BY <1>1, <1>2, <1>4, <1>6 DEF TargetInv, tree

LEMMA MountTypes == ASSUME TargetInv, NEW n \in Nodes, Mount(n) PROVE TargetInv'
<1>1. /\ touches < MaxTouches /\ touches' = touches + 1 /\ quiet' = FALSE
      /\ UNCHANGED <<tree, step, devices, target, todo, plain, there>>
      /\ n \in there /\ n \notin MountedNodes
  BY DEF Mount, Touch, Busy
<1>2. PICK point \in Points : mounts' = Append(mounts, [node |-> n, point |-> point])
  BY DEF Mount
<1>3. Tree' /\ Rooted' /\ Command' = Command
  BY <1>1, SameDisks DEF TargetInv, TargetTypeOK, Tree, Rooted, tree
<1>4. Mounted'
  <2> DEFINE Mount1 == [node : there, point : Points]
  <2> DEFINE m == [node |-> n, point |-> point]
  <2>1. mounts \in Seq(Mount1) /\ m \in Mount1 /\ m.node = n
    BY <1>1, <1>2 DEF TargetInv, Mounted
  <2> HIDE DEF Mount1, m
  <2>2. /\ mounts' \in Seq(Mount1) /\ Len(mounts') = Len(mounts) + 1
        /\ \A i \in 1..Len(mounts) : mounts'[i] = mounts[i]
        /\ mounts'[Len(mounts) + 1] = m
    BY <1>2, <2>1, AppendProperties DEF m
  <2>3. Len(mounts) \in Nat /\ DOMAIN mounts = 1..Len(mounts) /\ DOMAIN mounts' = 1..(Len(mounts) + 1)
    BY <2>1, <2>2, LenProperties
  <2>4. \A i \in DOMAIN mounts : mounts[i].node # n
    BY <1>1 DEF MountedNodes
  <2>5. \A i, j \in DOMAIN mounts' : i # j => mounts'[i].node # mounts'[j].node
    <3> TAKE i, j \in DOMAIN mounts'
    <3>1. (i \in DOMAIN mounts \/ i = Len(mounts) + 1) /\ (j \in DOMAIN mounts \/ j = Len(mounts) + 1)
      BY <2>3
    <3> QED BY <2>1, <2>2, <2>3, <2>4, <3>1 DEF TargetInv, Mounted
  <2> QED BY <1>1, <2>2, <2>5 DEF Mounted, Mount1
<1>5. touches' \in 0..MaxTouches
  BY <1>1, TouchAssumption DEF TargetInv, TargetTypeOK
<1>6. TargetTypeOK'
  BY <1>1, <1>3, <1>4, <1>5 DEF TargetInv, TargetTypeOK, Mounted, Rooted
<1> QED BY <1>1, <1>3, <1>4, <1>6 DEF TargetInv, tree

LEMMA TargetStepTypes == ASSUME TargetInv, [TargetNext]_targetVars PROVE TargetInv'
<1>1. CASE ListDevices
  BY <1>1, ListDevicesTypes
<1>2. CASE \E d \in Disks : Choose(d)
  BY <1>2, ChooseTypes
<1>3. CASE Confirm
  BY <1>3, MoveTypes DEF Confirm
<1>4. CASE RunCommand
  BY <1>4, RunCommandTypes
<1>5. CASE StartAgain
  BY <1>5, MoveTypes DEF StartAgain
<1>6. CASE Desktop
  BY <1>6, UnlockTypes, MountTypes DEF Desktop
<1>7. CASE UNCHANGED targetVars
  BY <1>7, MoveTypes DEF targetVars
<1> QED BY <1>1, <1>2, <1>3, <1>4, <1>5, <1>6, <1>7 DEF TargetNext, Flashing, Owner

\* The variables of the model keep their types (TargetTypeOK): whatever the owner and
\* the desktop do, the tree of devices stays a tree, and the listing and the advice
\* speak of mount points and of LUKS containers.
THEOREM TargetTypes == TargetSpec => []TargetTypeOK
<1>1. TargetInit => TargetInv
  BY TargetStarts
<1>2. TargetInv /\ [TargetNext]_targetVars => TargetInv'
  BY TargetStepTypes
<1>3. TargetInv => TargetTypeOK
  BY DEF TargetInv
<1> QED BY <1>1, <1>2, <1>3, PTL DEF TargetSpec
-----------------------------------------------------------------------------
(* What the listing and the advice are good for, on Linux.                 *)

Gone(d) == \A n \in MountedNodes : DiskOf[n] # d
Named == {d \in fit : target \in {0, d}}

\* As long as the desktop stays quiet: the listing tells which disks are free and how
\* to free the others, a disk that was accepted is free, and what the owner has yet
\* to do takes down what is left on the disks the advice was for.
Told ==
  /\ quiet /\ plain => Plain
  /\ step = "choose" /\ quiet => \A d \in fit : /\ devices[d].points = <<>> => Gone(d)
                                                /\ Plan(devices[d].commands, {d})
  /\ step = "confirm" /\ quiet => Gone(target)
  /\ step = "advised" /\ quiet /\ plain => Plan(todo, Named)

LEMMA SameGone ==
  ASSUME TargetInv, UNCHANGED <<tree, there, mounts>>
  PROVE  /\ \A d : Gone(d)' <=> Gone(d)
         /\ \A commands, disks : Plan(commands, disks)' <=> Plan(commands, disks)
         /\ Plain' <=> Plain
<1>1. /\ DiskOf' = DiskOf /\ MountedNodes' = MountedNodes /\ \A n : MountPoint(n)' = MountPoint(n)
      /\ Crypts' = Crypts /\ Command' = Command
  BY StillMounted
<1>2. \A n : Children(n)' = Children(n)
  BY DEF Children, tree
<1>3. \A d : Gone(d)' <=> Gone(d)
  BY <1>1 DEF Gone
<1>4. \A commands : Prepared(commands)' <=> Prepared(commands)
  BY <1>1, <1>2 DEF Prepared, Nodes, tree
<1>5. \A commands, disks : Plan(commands, disks)' <=> Plan(commands, disks)
  BY <1>1, <1>4 DEF Plan
<1>6. Plain' <=> Plain
  BY DEF Plain, tree
<1> QED BY <1>3, <1>5, <1>6

LEMMA ToldAtStart == ASSUME TargetInit PROVE Told
BY DEF TargetInit, Told, Plain

LEMMA ListDevicesTells ==
  ASSUME Platform = "linux", TargetInv, ListDevices
  PROVE  Told'
<1>1. PICK devs, disks, commands :
        /\ devs = [d \in fit |-> BlockDevice(d)] /\ disks = fit /\ commands = AllCommands(devs)
  OBVIOUS
<1>2. /\ devices' = devs /\ UNCHANGED <<tree, there, mounts>> /\ target' = 0
      /\ quiet' = TRUE /\ plain' = Plain
  BY <1>1 DEF ListDevices
<1>3. \/ step' = "advised" /\ todo' = commands
      \/ step' = "choose"
  BY <1>1 DEF ListDevices
<1>4. disks = fit /\ fit' = fit /\ fit \subseteq Disks /\ Rooted /\ Tree /\ Mounted
  BY <1>1, <1>2 DEF TargetInv, TargetTypeOK, Tree, Rooted, tree
<1>5. \A d \in disks : /\ devs[d].commands \in Seq(Command)
                       /\ devs[d].points = <<>> => Gone(d)
                       /\ Plan(devs[d].commands, {d})
  BY <1>1, <1>4, ListingIs DEF Gone
<1>6. Plan(commands, disks)
  BY <1>1, <1>4, <1>5, AllCommandsAre
<1>7. Plain' <=> Plain
  BY <1>2, SameGone
<1>8. CASE step' = "choose"
  <2>1. \A d \in disks : (devs[d].points = <<>> => Gone(d)') /\ Plan(devs[d].commands, {d})'
    BY <1>2, <1>5, SameGone
  <2> QED BY <1>2, <1>4, <1>7, <1>8, <2>1 DEF Told
<1>9. CASE step' = "advised" /\ todo' = commands
  <2>1. Plan(commands, disks)'
    BY <1>2, <1>6, SameGone
  <2>2. Named' = disks
    BY <1>2, <1>4 DEF Named
  <2> QED BY <1>2, <1>7, <1>9, <2>1, <2>2 DEF Told
<1> QED BY <1>3, <1>8, <1>9

LEMMA ChooseTells == ASSUME TargetInv, Told, NEW d \in Disks, Choose(d) PROVE Told'
<1>1. /\ d \in fit /\ step = "choose" /\ target' = d
      /\ UNCHANGED <<tree, there, mounts, devices, quiet, plain>>
  BY DEF Choose
<1>2. \/ step' = "advised" /\ todo' = devices[d].commands
      \/ step' = "confirm" /\ devices[d].points = <<>>
  BY DEF Choose
<1>3. Plain' <=> Plain
  BY <1>1, SameGone
<1>4. CASE step' = "confirm" /\ devices[d].points = <<>>
  <2>1. quiet => Gone(d)'
    BY <1>1, <1>4, SameGone DEF Told
  <2>2. Gone(d)' => Gone(target)'
    BY <1>1 DEF Gone
  <2> QED BY <1>1, <1>3, <1>4, <2>1, <2>2 DEF Told
<1>5. CASE step' = "advised" /\ todo' = devices[d].commands
  <2>1. quiet => Plan(devices[d].commands, {d})'
    BY <1>1, SameGone DEF Told
  <2>2. Named' = {d}
    BY <1>1, NodeAssumption DEF Named, Disks, tree
  <2> QED BY <1>1, <1>3, <1>5, <2>1, <2>2 DEF Told
<1> QED BY <1>2, <1>4, <1>5

\* With nothing mounted over or inside another, a mount that is asked for is gone.
LEMMA PlainUmount ==
  ASSUME TargetInv, Plain, NEW point, Umount(point), UNCHANGED tree
  PROVE  Plain' /\ \A n \in MountedNodes' : MountPoint(n) # point
<1> DEFINE now == {i \in DOMAIN mounts : mounts[i].point = point /\ CanUmount(i)}
<1>1. now = {i \in DOMAIN mounts : mounts[i].point = point}
  <2>1. \A i, j \in DOMAIN mounts : j > i => i # j
    BY LenProperties DEF TargetInv, Mounted
  <2> QED BY <2>1 DEF Plain, CanUmount
<1>2. mounts' = (IF now = {} THEN mounts ELSE RemoveAt(mounts, CHOOSE i \in now : TRUE)) /\ there' = there
  BY DEF Umount
<1> HIDE DEF now
<1>3. CASE now = {}
  <2>1. \A i \in DOMAIN mounts : mounts[i].point # point
    BY <1>1, <1>3
  <2>2. \A n \in MountedNodes : MountPoint(n) # point
    BY <2>1, MountPointIs DEF TargetInv, MountedNodes
  <2>3. MountedNodes' = MountedNodes /\ Plain'
    BY <1>2, <1>3, SameGone, StillMounted
  <2> QED BY <2>2, <2>3
<1>4. CASE now # {}
  <2>1. PICK i \in now : mounts' = RemoveAt(mounts, i)
    BY <1>2, <1>4
  <2>2. i \in DOMAIN mounts /\ mounts[i].point = point
    BY <1>1, <2>1
  <2>3. /\ \A n \in MountedNodes' : \E j \in DOMAIN mounts \ {i} : mounts[j].node = n
        /\ DOMAIN mounts' = 1..(Len(mounts) - 1) /\ Len(mounts) \in Nat
        /\ \A j \in DOMAIN mounts' : /\ (IF j < i THEN j ELSE j + 1) \in DOMAIN mounts \ {i}
                                     /\ mounts'[j] = mounts[IF j < i THEN j ELSE j + 1]
    BY <1>2, <2>1, <2>2, OneFewer
  <2>4. \A j \in DOMAIN mounts \ {i} : mounts[j].point # point
    BY <2>2 DEF Plain
  <2>5. \A n \in MountedNodes' : MountPoint(n) # point
    BY <2>3, <2>4, MountPointIs DEF TargetInv
  <2>6. Plain'
    <3>1. DOMAIN mounts = 1..Len(mounts)
      BY LenProperties DEF TargetInv, Mounted
    <3>2. ASSUME NEW j \in DOMAIN mounts', NEW k \in DOMAIN mounts', j # k
          PROVE  /\ mounts'[j].point # mounts'[k].point
                 /\ ~Inside(mounts'[j].point, mounts'[k].point)
      <4> DEFINE J == IF j < i THEN j ELSE j + 1
      <4> DEFINE K == IF k < i THEN k ELSE k + 1
      <4>1. J # K
        BY <2>2, <2>3, <3>1, <3>2
      <4>2. /\ J \in DOMAIN mounts /\ mounts'[j] = mounts[J]
            /\ K \in DOMAIN mounts /\ mounts'[k] = mounts[K]
        BY <2>3
      <4> HIDE DEF J, K
      <4> QED BY <4>1, <4>2 DEF Plain
    <3>3. \A n \in there' : type'[n] # "lvm"
      BY <1>2 DEF Plain, tree
    <3> QED BY <3>2, <3>3 DEF Plain, Inside
  <2> QED BY <2>5, <2>6
<1> QED BY <1>3, <1>4

\* With no logical volume, a container that is closed in its turn is gone.
LEMMA PlainClose ==
  ASSUME TargetInv, Plain, NEW disks, Plan(todo, disks), todo # <<>>, UNCHANGED tree,
         NEW n \in Crypts, Head(todo) = Closes(n), CryptsetupClose(n)
  PROVE  Plain' /\ n \notin there'
<1>1. 1 \in DOMAIN todo /\ todo[1] = Closes(n) /\ n \in Nodes /\ type[n] = "crypt"
  BY HeadTailProperties, LenProperties DEF Plan, Crypts
<1>2. n \notin MountedNodes /\ \A c \in Children(n) : type[c] # "crypt"
  BY <1>1 DEF Plan, Prepared
<1>3. \A c \in Children(n) : type[c] = "crypt"
  <2> SUFFICES ASSUME NEW c \in Children(n) PROVE type[c] = "crypt"
    OBVIOUS
  <2>1. c \in there /\ c \in Nodes /\ parent[c] = n
    BY DEF Children, TargetInv, TargetTypeOK
  <2>2. type[c] # "lvm"
    BY <2>1 DEF Plain
  <2>3. c \notin Disks
    BY <1>1, <2>1 DEF TargetInv, Tree, Nodes
  <2>4. type[c] # "part"
    BY <1>1, <2>1, <2>3 DEF TargetInv, Tree
  <2>5. type[c] \in {"part", "crypt", "lvm"}
    BY <2>1, <2>3 DEF TargetInv, Tree
  <2> QED BY <2>2, <2>4, <2>5
<1>4. ~Busy(n)
  BY <1>2, <1>3 DEF Busy
<1>5. there' = there \ {n} /\ mounts' = mounts
  BY <1>4 DEF CryptsetupClose
<1> QED BY <1>5 DEF Plain, tree

LEMMA RunCommandTells == ASSUME TargetInv, Told, RunCommand PROVE Told'
<1>1. /\ step = "advised" /\ todo # <<>> /\ todo' = Tail(todo)
      /\ UNCHANGED <<tree, step, target, quiet, plain>>
  BY DEF RunCommand
<1>2. Named' = Named
  BY <1>1 DEF Named, tree
<1>3. ASSUME quiet, plain PROVE Plain' /\ Plan(todo, Named)'
  <2>1. Plain /\ Rooted /\ Head(todo) \in Command
    BY <1>1, <1>3, HeadTailProperties DEF Told, TargetInv, TargetTypeOK, Rooted
  <2>2. PICK disks : disks = Named
    OBVIOUS
  <2>3. Plan(todo, disks)
    BY <1>1, <1>3, <2>2 DEF Told
  <2>4. CASE Head(todo).cmd = "umount" /\ Umount(Head(todo).point)
    <3>1. \A p : Head(todo) = Umounts(p) => p = Head(todo).point
      BY DEF Umounts
    <3>2. \A n : Head(todo) # Closes(n)
      BY <2>4 DEF Closes
    <3>3. Plain' /\ \A n \in MountedNodes' : MountPoint(n) # Head(todo).point
      BY <1>1, <2>1, <2>4, PlainUmount
    <3>4. Plan(todo, disks)'
      BY <1>1, <2>1, <2>3, <2>4, <3>1, <3>2, <3>3, UmountFacts, PlanGoesOn
    <3> QED BY <1>2, <2>2, <3>3, <3>4
  <2>5. CASE Head(todo).cmd = "close" /\ CryptsetupClose(Head(todo).node)
    <3> DEFINE n == Head(todo).node
    <3>1. n \in Crypts /\ Head(todo) = Closes(n)
      BY <2>1, <2>5 DEF Command, Closes
    <3>2. (\A m : Head(todo) = Closes(m) => m = n) /\ \A p : Head(todo) # Umounts(p)
      BY <2>5 DEF Closes, Umounts
    <3>3. Plain' /\ n \notin there'
      BY <1>1, <2>1, <2>3, <2>5, <3>1, PlainClose
    <3>4. Plan(todo, disks)'
      BY <1>1, <2>1, <2>3, <2>5, <3>2, <3>3, CloseFacts, PlanGoesOn
    <3> QED BY <1>2, <2>2, <3>3, <3>4
  <2> QED BY <2>4, <2>5 DEF RunCommand
<1> QED BY <1>1, <1>3 DEF Told

LEMMA TargetStepTells ==
  ASSUME Platform = "linux", TargetInv, Told, [TargetNext]_targetVars
  PROVE  Told'
<1>1. CASE ListDevices
  BY <1>1, ListDevicesTells
<1>2. CASE \E d \in Disks : Choose(d)
  BY <1>2, ChooseTells
<1>3. CASE Confirm
  BY <1>3, SameGone DEF Confirm, Told
<1>4. CASE RunCommand
  BY <1>4, RunCommandTells
<1>5. CASE StartAgain
  BY <1>5, SameGone DEF StartAgain, Told
<1>6. CASE Desktop
  <2>1. quiet' = FALSE
    BY <1>6 DEF Desktop, Unlock, Mount, Touch
  <2> QED BY <2>1 DEF Told
<1>7. CASE UNCHANGED targetVars
  <2>1. \A d : Gone(d)' <=> Gone(d)
    BY <1>7, SameGone DEF targetVars
  <2>2. \A commands, disks : Plan(commands, disks)' <=> Plan(commands, disks)
    BY <1>7, SameGone DEF targetVars
  <2>3. Plain' <=> Plain
    BY <1>7, SameGone DEF targetVars
  <2>4. Named' = Named /\ fit' = fit
    BY <1>7 DEF targetVars, tree, Named
  <2> QED BY <1>7, <2>1, <2>2, <2>3, <2>4 DEF Told, targetVars
<1> QED BY <1>1, <1>2, <1>3, <1>4, <1>5, <1>6, <1>7 DEF TargetNext, Flashing, Owner

\* On Linux a disk that passes the check has nothing mounted on it, down to a volume in
\* a LUKS container, unless the desktop has mounted something since the listing
\* (AcceptedUnmounted: list_removable_devices, validate_flash_target).  On macOS
\* nothing like it holds: diskutil is asked about the disk and not its partitions.
THEOREM AcceptedIsUnmounted ==
  ASSUME Platform = "linux"
  PROVE  TargetSpec => []AcceptedUnmounted
<1>1. TargetInit => TargetInv /\ Told
  BY TargetStarts, ToldAtStart
<1>2. TargetInv /\ Told /\ [TargetNext]_targetVars => TargetInv' /\ Told'
  BY TargetStepTypes, TargetStepTells
<1>3. Told => AcceptedUnmounted
  BY DEF Told, Gone, AcceptedUnmounted
<1> QED BY <1>1, <1>2, <1>3, PTL DEF TargetSpec

\* On Linux an owner who has run all the commands, in their order, has taken down the
\* disks they were for, their LUKS containers included, if the desktop kept quiet and
\* at the listing no mount was over or inside another and no logical volume was up
\* (AdviceSuffices: collect_mount_info).
THEOREM AdviceIsEnough ==
  ASSUME Platform = "linux"
  PROVE  TargetSpec => []AdviceSuffices
<1>1. TargetInit => TargetInv /\ Told
  BY TargetStarts, ToldAtStart
<1>2. TargetInv /\ Told /\ [TargetNext]_targetVars => TargetInv' /\ Told'
  BY TargetStepTypes, TargetStepTells
<1>3. Told => AdviceSuffices
  <2> SUFFICES ASSUME Told, step = "advised", todo = <<>>, quiet, plain,
                      NEW d \in fit, target \in {0, d}
               PROVE  Down(d)
    BY DEF AdviceSuffices
  <2>1. Plan(<<>>, Named) /\ d \in Named
    BY DEF Told, Named
  <2>2. \A c : ~Has(<<>>, c)
    BY DEF Has
  <2> QED BY <2>1, <2>2 DEF Plan, Down
<1> QED BY <1>1, <1>2, <1>3, PTL DEF TargetSpec
=============================================================================
