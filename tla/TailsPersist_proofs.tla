------------------------ MODULE TailsPersist_proofs ------------------------
(***************************************************************************)
(* Theorems about TailsPersist, for any number of processes and sticks:    *)
(* what `tails persist` reports is on the stick, whoever else works on it. *)
(***************************************************************************)
EXTENDS TailsPersist, TLAPS

\* From luks_open on a process has the volume; from mkpart on nobody else can have got
\* past mkpart on the same stick, since the partition takes the room that is left, unless
\* the stick was flashed meanwhile.
Inner == {"mkfs", "mount", "layout", "files", "tight", "umount", "drop", "close"}
Formatted == {"type", "luks", "open"} \cup Inner

\* What a run without a failure has done before each step.
Before ==
  LET table == {"guid", "resize", "fat"} IN
  LET partition == table \cup {"part", "type", "luks"} IN
  [get |-> {}, fill |-> {}, verify |-> {}, extract |-> {}, unpack |-> {}, tools |-> {},
   guid |-> {}, resize |-> {"guid"}, fat |-> {"guid", "resize"}, part |-> table,
   type |-> table \cup {"part"}, luks |-> table \cup {"part", "type"},
   open |-> partition, mkfs |-> partition, mount |-> partition \cup {"fs"},
   layout |-> partition \cup {"fs"}, files |-> partition \cup {"fs", "layout"},
   tight |-> Required, umount |-> Required, drop |-> Required, close |-> Required]

\* What holds of a process wherever it is.
ProcInv(p) ==
  LET d == proc[p].stick IN
  /\ proc[p].step = "idle" => proc[p] = Idle
  /\ proc[p].step # "idle" => d \in Sticks /\ arch \in {"x86_64", "aarch64"}
  /\ proc[p].step # "idle" /\ proc[p].failed = {} /\ d \notin spoilt =>
       Before[proc[p].step] \subseteq disk[d]
  /\ proc[p].step \in Formatted /\ d \notin spoilt => "part" \in disk[d] /\ d \notin created
  /\ proc[p].step \in Inner => mapper = d
  /\ proc[p].step \in {"mkfs", "mount"} => ~mounted
  /\ proc[p].step \in {"layout", "files", "tight", "umount"} => mounted
  /\ proc[p].step \in {"drop", "close"} /\ proc[p].failed \cap {"layout", "umount"} = {} =>
       ~mounted
  /\ proc[p].step \in {"extract", "unpack"} => arch = "aarch64" /\ archive = "signed"
  /\ /\ arch = "aarch64"
     /\ proc[p].step \in {"tools", "guid", "resize", "fat", "part", "type", "luks", "open",
                          "mkfs", "mount", "layout", "files"}
     => binary = "kdub"
  /\ proc[p].step \in {"get", "fill", "verify"} => arch = "aarch64"

\* What two processes never do at the same time.
Apart(p, q) ==
  /\ ~(proc[p].step \in Inner /\ proc[q].step \in Inner)
  /\ ~(/\ proc[p].step \in Formatted /\ proc[q].step \in Formatted
       /\ proc[p].stick = proc[q].stick /\ proc[p].stick \notin spoilt)
  /\ arch = "aarch64" => proc[p].step = "idle" \/ proc[q].step = "idle"

\* The inductive invariant.
PInv ==
  /\ TypeOK
  /\ \A p \in Procs : ProcInv(p)
  /\ \A p, q \in Procs : p # q => Apart(p, q)
  /\ CreatedStaysComplete

\* The order of the steps, and where a failure leads.
LEMMA StepOrder ==
  /\ DOMAIN After =
       {"get", "fill", "verify", "extract", "unpack", "tools", "guid", "resize", "fat", "part",
        "type", "luks", "open", "mkfs", "mount", "layout", "files", "tight", "umount", "drop",
        "close"}
  /\ MayFail = DOMAIN After \ {"verify", "drop"}
  /\ After["get"] = "fill" /\ After["fill"] = "verify" /\ After["verify"] = "extract"
  /\ After["extract"] = "unpack" /\ After["unpack"] = "tools" /\ After["tools"] = "guid"
  /\ After["guid"] = "resize" /\ After["resize"] = "fat" /\ After["fat"] = "part"
  /\ After["part"] = "type" /\ After["type"] = "luks" /\ After["luks"] = "open"
  /\ After["open"] = "mkfs" /\ After["mkfs"] = "mount" /\ After["mount"] = "layout"
  /\ After["layout"] = "files" /\ After["files"] = "tight" /\ After["tight"] = "umount"
  /\ After["umount"] = "drop" /\ After["drop"] = "close" /\ After["close"] = "idle"
BY DEF After, MayFail, OnFailure

\* What each step adds to the ones before it.
LEMMA BeforeOrder ==
  /\ \A step \in {"get", "fill", "verify", "extract", "unpack", "tools", "guid", "resize", "fat",
                  "part"} : Before[step] \subseteq {"guid", "resize", "fat"}
  /\ \A step \in {"get", "fill", "verify", "extract", "unpack", "tools", "guid"} : Before[step] = {}
  /\ Before["resize"] = Before["guid"] \cup {"guid"}
  /\ Before["fat"] = Before["resize"] \cup {"resize"}
  /\ Before["part"] = Before["fat"] \cup {"fat"}
  /\ Before["type"] = Before["part"] \cup {"part"}
  /\ Before["luks"] = Before["type"] \cup {"type"}
  /\ Before["luks"] = {"guid", "resize", "fat", "part", "type"}
  /\ Before["open"] = Before["luks"] \cup {"luks"} /\ Before["mkfs"] = Before["open"]
  /\ Before["mkfs"] = {"guid", "resize", "fat", "part", "type", "luks"}
  /\ Before["mount"] = Before["mkfs"] \cup {"fs"} /\ Before["layout"] = Before["mount"]
  /\ Before["files"] = Before["layout"] \cup {"layout"}
  /\ Before["tight"] = Before["files"] \cup {"files", "kdub"}
  /\ Before["umount"] = Before["tight"] /\ Before["drop"] = Before["tight"]
  /\ Before["close"] = Required /\ Before["tight"] = Required
<1>1. Before["luks"] = {"guid", "resize", "fat", "part", "type"}
  BY DEF Before
<1>2. /\ \A step \in {"get", "fill", "verify", "extract", "unpack", "tools", "guid", "resize", "fat",
                     "part"} : Before[step] \subseteq {"guid", "resize", "fat"}
      /\ \A step \in {"get", "fill", "verify", "extract", "unpack", "tools", "guid"} : Before[step] = {}
  BY DEF Before
<1>3. /\ Before["resize"] = Before["guid"] \cup {"guid"}
      /\ Before["fat"] = Before["resize"] \cup {"resize"}
      /\ Before["part"] = Before["fat"] \cup {"fat"}
      /\ Before["type"] = Before["part"] \cup {"part"}
      /\ Before["luks"] = Before["type"] \cup {"type"}
  BY DEF Before
<1>4. /\ Before["open"] = Before["luks"] \cup {"luks"} /\ Before["mkfs"] = Before["open"]
      /\ Before["mkfs"] = {"guid", "resize", "fat", "part", "type", "luks"}
      /\ Before["mount"] = Before["mkfs"] \cup {"fs"} /\ Before["layout"] = Before["mount"]
  BY DEF Before
<1>5. Before["files"] = Before["layout"] \cup {"layout"}
  BY DEF Before
<1>6. Before["tight"] = Before["files"] \cup {"files", "kdub"}
  BY DEF Before, Required
<1>7. /\ Before["umount"] = Before["tight"] /\ Before["drop"] = Before["tight"]
      /\ Before["close"] = Required /\ Before["tight"] = Required
  BY DEF Before
<1> QED
  BY <1>1, <1>2, <1>3, <1>4, <1>5, <1>6, <1>7

LEMMA FailureOrder ==
  /\ \A step \in {"get", "fill", "extract", "unpack", "tools", "guid", "resize", "fat", "part",
                  "type", "luks", "open", "close"} : OnFailure[step] = "idle"
  /\ OnFailure["mkfs"] = "close" /\ OnFailure["mount"] = "drop"
  /\ OnFailure["layout"] = "drop" /\ OnFailure["files"] = "tight"
  /\ OnFailure["tight"] = "umount" /\ OnFailure["umount"] = "drop"
BY DEF OnFailure

ProcType == [Procs -> [step : DOMAIN After \cup {"idle"}, stick : Sticks \cup {NoStick},
                       failed : SUBSET MayFail]]

\* A step taken moves one process on.
LEMMA Moved ==
  ASSUME TypeOK, NEW p \in Procs, NEW step \in DOMAIN After, After[step] \in DOMAIN After,
         Done(p, step)
  PROVE  /\ proc[p].step = step
         /\ proc'[p].step = After[step]
         /\ proc'[p].stick = proc[p].stick /\ proc'[p].failed = proc[p].failed
         /\ \A q \in Procs \ {p} : proc'[q] = proc[q]
         /\ proc' \in ProcType
<1>1. "idle" \notin DOMAIN After
  BY StepOrder
<1>2. proc' = [proc EXCEPT ![p] = [@ EXCEPT !.step = After[step]]]
  BY <1>1 DEF Done, Goto
<1> QED
  BY <1>2 DEF TypeOK, Done, At, ProcType

\* A process ends.
LEMMA Ended ==
  ASSUME TypeOK, NEW p \in Procs, Goto(p, "idle")
  PROVE  /\ proc'[p] = Idle /\ proc'[p].step = "idle"
         /\ \A q \in Procs \ {p} : proc'[q] = proc[q]
         /\ proc' \in ProcType
<1>1. proc' = [proc EXCEPT ![p] = Idle]
  BY DEF Goto
<1> QED
  BY <1>1 DEF TypeOK, Idle, ProcType

\* What a step of one process has to leave alone for the others.
LEMMA OneMoves ==
  ASSUME PInv, TypeOK', CreatedStaysComplete', arch' = arch, spoilt' = spoilt,
         NEW p \in Procs, ProcInv(p)',
         \A q \in Procs \ {p} : proc'[q] = proc[q],
         \A q \in Procs \ {p} :
           proc[q].step \in Inner => mapper' = mapper /\ mounted' = mounted,
         \A q \in Procs \ {p} :
           proc[q].step # "idle" =>
             disk[proc[q].stick] \cap {"guid", "resize", "fat"} \subseteq disk'[proc[q].stick],
         \A q \in Procs \ {p} :
           proc[q].step \in Formatted /\ proc[q].stick \notin spoilt =>
             disk[proc[q].stick] \subseteq disk'[proc[q].stick] /\ proc[q].stick \notin created',
         proc'[p].step \in Inner => proc[p].step \in Inner \/ mapper = NoStick,
         proc'[p].step \in Formatted =>
           \/ proc[p].step \in Formatted /\ proc'[p].stick = proc[p].stick
           \/ "part" \notin disk[proc'[p].stick] \/ proc'[p].stick \in spoilt,
         proc'[p].step # "idle" => proc[p].step # "idle" \/ (arch = "aarch64" => Alone),
         proc[p].step = "idle" => UNCHANGED cache
  PROVE  PInv'
<1>1. ASSUME NEW q \in Procs PROVE ProcInv(q)'
  <2>1. CASE q = p
    BY <2>1
  <2>2. CASE q # p
    <3>1. proc'[q] = proc[q] /\ ProcInv(q) /\ Apart(q, p)
      BY <2>2 DEF PInv
    <3>2. proc[q].step # "idle" /\ arch = "aarch64" => UNCHANGED cache
      BY <3>1 DEF Apart
    <3>3. proc[q].step \in Inner => mapper' = mapper /\ mounted' = mounted
      BY <2>2
    <3>4. proc[q].step \in Formatted /\ proc[q].stick \notin spoilt =>
            disk[proc[q].stick] \subseteq disk'[proc[q].stick] /\ proc[q].stick \notin created'
      BY <2>2
    <3>5. proc[q].step # "idle" /\ proc[q].failed = {} /\ proc[q].stick \notin spoilt =>
            Before[proc[q].step] \subseteq disk'[proc[q].stick]
      <4>1. CASE proc[q].step \in Formatted
        BY <3>1, <3>4, <4>1 DEF ProcInv, Formatted, Inner
      <4>2. CASE proc[q].step \notin Formatted /\ proc[q].step # "idle"
        <5>1. Before[proc[q].step] \subseteq {"guid", "resize", "fat"}
          <6>1. proc[q].step \in DOMAIN After
            BY <4>2 DEF PInv, TypeOK
          <6> QED
            BY <4>2, <6>1, StepOrder, BeforeOrder DEF Formatted, Inner
        <5> QED
          BY <2>2, <3>1, <4>2, <5>1 DEF ProcInv
      <4> QED
        BY <4>1, <4>2
    <3> QED
      BY <3>1, <3>2, <3>3, <3>4, <3>5 DEF ProcInv, Formatted, Inner, cache
  <2> QED
    BY <2>1, <2>2
<1>2. ASSUME NEW q \in Procs, q # p PROVE Apart(p, q)' /\ Apart(q, p)'
  <2>1. proc'[q] = proc[q] /\ ProcInv(q) /\ Apart(q, p) /\ Apart(p, q)
    BY <1>2 DEF PInv
  <2>2. ~(proc'[p].step \in Inner /\ proc[q].step \in Inner)
    BY <2>1, StickAssumption DEF Apart, ProcInv, Inner
  <2>3. ~(/\ proc'[p].step \in Formatted /\ proc[q].step \in Formatted
          /\ proc'[p].stick = proc[q].stick /\ proc[q].stick \notin spoilt)
    BY <2>1 DEF Apart, ProcInv
  <2>4. arch = "aarch64" => proc'[p].step = "idle" \/ proc[q].step = "idle"
    BY <2>1 DEF Apart, Alone, Idle
  <2> QED
    BY <2>1, <2>2, <2>3, <2>4 DEF Apart
<1>3. ASSUME NEW q \in Procs, NEW r \in Procs, q # r PROVE Apart(q, r)'
  <2>1. CASE q # p /\ r # p
    BY <1>3, <2>1 DEF PInv, Apart
  <2> QED
    BY <1>2, <1>3, <2>1
<1> QED
  BY <1>1, <1>3 DEF PInv

\* Steps before a process has changed anything of its stick.
LEMMA EarlyStep ==
  ASSUME PInv, UNCHANGED <<sticks, arch, flash>>,
         archive' \in {"absent", "torn", "signed", "not signed"},
         binary' \in {"absent", "torn", "kdub", "other"},
         NEW p \in Procs,
         NEW step \in {"get", "fill", "verify", "extract", "unpack", "tools"},
         NEW next \in {"fill", "verify", "extract", "unpack", "tools", "guid"},
         After[step] = next, next = "guid" <=> step = "tools", Done(p, step),
         next \in {"extract", "unpack"} => archive' = "signed",
         arch = "aarch64" /\ next \in {"tools", "guid"} => binary' = "kdub"
  PROVE  PInv'
<1>1. TypeOK /\ ProcInv(p) /\ UNCHANGED <<disk, mapper, mounted, created, arch>>
      /\ UNCHANGED <<target, spoilt, flashes>>
  BY DEF PInv, sticks, flash
<1>2. step \in DOMAIN After /\ next \in DOMAIN After
  BY StepOrder
<1>3. /\ proc[p].step = step /\ proc'[p].step = next
      /\ proc'[p].stick = proc[p].stick /\ proc'[p].failed = proc[p].failed
      /\ \A q \in Procs \ {p} : proc'[q] = proc[q]
      /\ proc' \in ProcType
  BY <1>1, <1>2, Moved
<1>4. TypeOK'
  BY <1>1, <1>3 DEF TypeOK, ProcType
<1>5. ProcInv(p)'
  <2>1. Before[next] = {}
    BY BeforeOrder
  <2>2. proc[p].stick \in Sticks /\ arch \in {"x86_64", "aarch64"}
    BY <1>1, <1>3 DEF ProcInv
  <2>3. step # "tools" => arch = "aarch64"
    BY <1>1, <1>3 DEF ProcInv
  <2> QED
    BY <1>1, <1>3, <2>1, <2>2, <2>3 DEF ProcInv, Formatted, Inner
<1>6. proc'[p].step \notin Formatted /\ proc'[p].step \notin Inner /\ proc[p].step # "idle"
  BY <1>3 DEF Formatted, Inner
<1>7. CreatedStaysComplete'
  BY <1>1 DEF PInv, CreatedStaysComplete
<1>8. \A q \in Procs \ {p} :
        proc[q].step \in Formatted /\ proc[q].stick \notin spoilt => proc[q].stick \notin created'
  BY <1>1 DEF PInv, ProcInv
<1> QED
  BY <1>1, <1>3, <1>4, <1>5, <1>6, <1>7, <1>8, OneMoves

\* A process that ends, after a failure or killed, and may leave the cache changed.
LEMMA GoneStep ==
  ASSUME PInv, UNCHANGED <<sticks, arch, binary, flash>>, archive' \in {archive, "absent"},
         NEW p \in Procs, proc[p].step # "idle", Goto(p, "idle")
  PROVE  PInv'
<1>1. TypeOK /\ ProcInv(p) /\ UNCHANGED <<disk, mapper, mounted, created, arch>>
      /\ UNCHANGED <<target, spoilt, flashes>>
  BY DEF PInv, sticks, flash
<1>2. /\ proc'[p] = Idle /\ proc'[p].step = "idle"
      /\ \A q \in Procs \ {p} : proc'[q] = proc[q]
      /\ proc' \in ProcType
  BY <1>1, Ended
<1>3. TypeOK'
  BY <1>1, <1>2 DEF TypeOK, ProcType
<1>4. ProcInv(p)'
  BY <1>2 DEF ProcInv, Formatted, Inner
<1>5. proc'[p].step \notin Formatted /\ proc'[p].step \notin Inner
  BY <1>2 DEF Formatted, Inner
<1>6. CreatedStaysComplete'
  BY <1>1 DEF PInv, CreatedStaysComplete
<1>7. \A q \in Procs \ {p} :
        proc[q].step \in Formatted /\ proc[q].stick \notin spoilt => proc[q].stick \notin created'
  BY <1>1 DEF PInv, ProcInv
<1> QED
  BY <1>1, <1>2, <1>3, <1>4, <1>5, <1>6, <1>7, OneMoves

\* Steps of a process on its stick or its volume.
LEMMA StickStep ==
  ASSUME PInv, UNCHANGED cache, UNCHANGED flash, disk' \in [Sticks -> SUBSET Work],
         mapper' \in Sticks \cup {NoStick}, mounted' \in BOOLEAN,
         mounted' => mapper' # NoStick, created' = created,
         NEW p \in Procs, NEW step \in DOMAIN After, NEW next \in DOMAIN After,
         proc[p].step = step, proc'[p].step = next, proc'[p].stick = proc[p].stick,
         proc' \in ProcType, \A q \in Procs \ {p} : proc'[q] = proc[q], ProcInv(p)',
         \A e \in Sticks \ {proc[p].stick} : disk'[e] = disk[e],
         \/ disk[proc[p].stick] \subseteq disk'[proc[p].stick]
         \/ step \in Formatted /\ disk[proc[p].stick] \cap {"guid", "resize", "fat"} \subseteq
                                    disk'[proc[p].stick],
         step \in Inner \/ UNCHANGED <<mapper, mounted>> \/ mapper = NoStick,
         next \in Inner => step \in Inner \/ mapper = NoStick,
         next \in Formatted => step \in Formatted \/ "part" \notin disk[proc[p].stick]
  PROVE  PInv'
<1>1. /\ TypeOK /\ ProcInv(p) /\ UNCHANGED <<arch, archive, binary>>
      /\ UNCHANGED <<target, spoilt, flashes>>
  BY DEF PInv, cache, flash
<1>3. step # "idle" /\ next # "idle"
  BY StepOrder
<1>4. TypeOK'
  BY <1>1 DEF TypeOK, ProcType
<1>5. proc[p].stick \in Sticks
  BY <1>1, <1>3 DEF ProcInv
<1>6. ASSUME NEW q \in Procs \ {p}
      PROVE  /\ proc[q].step \in Inner => mapper' = mapper /\ mounted' = mounted
             /\ proc[q].step # "idle" =>
                  disk[proc[q].stick] \cap {"guid", "resize", "fat"} \subseteq disk'[proc[q].stick]
             /\ proc[q].step \in Formatted /\ proc[q].stick \notin spoilt =>
                  disk[proc[q].stick] \subseteq disk'[proc[q].stick]
                    /\ proc[q].stick \notin created'
  <2>1. ProcInv(q) /\ Apart(p, q)
    BY DEF PInv
  <2>2. proc[q].step \in Inner => mapper' = mapper /\ mounted' = mounted
    BY <2>1, StickAssumption DEF Apart, ProcInv, Inner
  <2>3. proc[q].step # "idle" => proc[q].stick \in Sticks
    BY <2>1 DEF ProcInv
  <2>4. proc[q].step # "idle" =>
          disk[proc[q].stick] \cap {"guid", "resize", "fat"} \subseteq disk'[proc[q].stick]
    BY <2>3
  <2>5. /\ proc[q].step \in Formatted => proc[q].step # "idle"
        /\ proc[q].step \in Formatted /\ proc[q].stick \notin spoilt =>
             proc[q].stick \notin created
    BY <2>1 DEF ProcInv, Formatted, Inner
  <2>6. proc[q].step \in Formatted /\ proc[q].stick \notin spoilt =>
          disk[proc[q].stick] \subseteq disk'[proc[q].stick]
    BY <2>1, <2>3, <2>5 DEF Apart
  <2> QED
    BY <2>2, <2>4, <2>5, <2>6
<1>7. CreatedStaysComplete'
  <2> SUFFICES ASSUME NEW e \in created \ spoilt PROVE Required \subseteq disk'[e]
    BY <1>1 DEF CreatedStaysComplete
  <2>1. Required \subseteq disk[e] /\ e \in Sticks
    BY <1>1 DEF PInv, CreatedStaysComplete, TypeOK
  <2>2. step \in Formatted => e # proc[p].stick
    BY <1>1 DEF ProcInv
  <2> QED
    BY <2>1, <2>2
<1> QED
  BY <1>1, <1>3, <1>4, <1>6, <1>7, OneMoves

\* The commands before luks_open.
LEMMA PartitionStep ==
  ASSUME PInv, NEW p \in Procs,
         NEW step \in {"guid", "resize", "fat", "part", "type"}, Partition(p, step)
  PROVE  PInv'
<1> DEFINE d == proc[p].stick
<1>1. /\ TypeOK /\ ProcInv(p) /\ Done(p, step)
      /\ UNCHANGED <<mapper, mounted, created>> /\ UNCHANGED cache /\ UNCHANGED flash
  BY DEF PInv, Partition
<1>2. /\ step \in DOMAIN After /\ After[step] \in DOMAIN After
      /\ After[step] \in {"resize", "fat", "part", "type", "luks"}
      /\ (After[step] \in Formatted <=> step \in {"part", "type"})
      /\ Before[After[step]] = Before[step] \cup {step}
      /\ (step = "type" <=> After[step] = "luks")
  <2>1. CASE step = "guid"
    BY <2>1, StepOrder, BeforeOrder DEF Formatted, Inner
  <2>2. CASE step = "resize"
    BY <2>2, StepOrder, BeforeOrder DEF Formatted, Inner
  <2>3. CASE step = "fat"
    BY <2>3, StepOrder, BeforeOrder DEF Formatted, Inner
  <2>4. CASE step = "part"
    BY <2>4, StepOrder, BeforeOrder DEF Formatted, Inner
  <2>5. CASE step = "type"
    BY <2>5, StepOrder, BeforeOrder DEF Formatted, Inner
  <2> QED
    BY <2>1, <2>2, <2>3, <2>4, <2>5
<1>3. /\ proc[p].step = step /\ proc'[p].step = After[step]
      /\ proc'[p].stick = d /\ proc'[p].failed = proc[p].failed
      /\ \A q \in Procs \ {p} : proc'[q] = proc[q]
      /\ proc' \in ProcType
  BY <1>1, <1>2, Moved
<1>4. d \in Sticks /\ arch \in {"x86_64", "aarch64"}
  BY <1>1, <1>3 DEF ProcInv
<1>5. /\ disk' \in [Sticks -> SUBSET Work] /\ disk'[d] = disk[d] \cup {step}
      /\ \A e \in Sticks \ {d} : disk'[e] = disk[e]
      /\ step = "part" => "part" \notin disk[d]
  BY <1>1, <1>4 DEF Partition, TypeOK, Work, Required
<1>6. step = "part" /\ d \notin spoilt => d \notin created
  BY <1>1, <1>5 DEF PInv, CreatedStaysComplete, Required
<1>7. ProcInv(p)'
  <2>1. step = "type" /\ d \notin spoilt => "part" \in disk[d] /\ d \notin created
    BY <1>1, <1>3 DEF ProcInv, Formatted
  <2>2. proc[p].failed = {} /\ d \notin spoilt => Before[step] \subseteq disk[d]
    BY <1>1, <1>3 DEF ProcInv
  <2>3. arch = "aarch64" => binary = "kdub"
    BY <1>1, <1>3 DEF ProcInv
  <2>4. After[step] \notin Inner
    BY <1>2 DEF Inner
  <2> QED
    BY <1>1, <1>2, <1>3, <1>4, <1>5, <1>6, <2>1, <2>2, <2>3, <2>4 DEF ProcInv, cache, flash
<1>8. After[step] \notin Inner /\ (step \in Formatted <=> step = "type")
  BY <1>2 DEF Inner, Formatted
<1> QED
  BY <1>1, <1>2, <1>3, <1>5, <1>7, <1>8, StickStep DEF TypeOK

\* What is known of the process that takes a step from luks_format on.
LEMMA LateFacts ==
  ASSUME PInv, NEW p \in Procs, NEW step \in DOMAIN After, NEW next \in DOMAIN After,
         After[step] = next, Done(p, step)
  PROVE  /\ TypeOK /\ ProcInv(p)
         /\ proc[p].step = step /\ proc'[p].step = next
         /\ proc'[p].stick = proc[p].stick /\ proc'[p].failed = proc[p].failed
         /\ proc' \in ProcType /\ \A q \in Procs \ {p} : proc'[q] = proc[q]
         /\ proc[p].stick \in Sticks /\ arch \in {"x86_64", "aarch64"}
         /\ proc[p].failed = {} /\ proc[p].stick \notin spoilt =>
              Before[step] \subseteq disk[proc[p].stick]
         /\ step \in Inner => mapper = proc[p].stick /\ mapper # NoStick
<1>1. TypeOK /\ ProcInv(p)
  BY DEF PInv
<1>2. /\ proc[p].step = step /\ proc'[p].step = next
      /\ proc'[p].stick = proc[p].stick /\ proc'[p].failed = proc[p].failed
      /\ proc' \in ProcType /\ \A q \in Procs \ {p} : proc'[q] = proc[q]
  BY <1>1, Moved
<1>3. step # "idle"
  BY StepOrder
<1> QED
  BY <1>1, <1>2, <1>3, StickAssumption DEF ProcInv

LEMMA LuksFormatStep ==
  ASSUME PInv, NEW p \in Procs, LuksFormat(p)
  PROVE  PInv'
<1> DEFINE d == proc[p].stick
<1>1. /\ Done(p, "luks") /\ mapper # d /\ UNCHANGED <<mapper, mounted, created>>
      /\ UNCHANGED cache /\ UNCHANGED flash
      /\ disk' = [disk EXCEPT ![d] = (@ \ ({"fs"} \cup Content)) \cup {"luks"}]
  BY DEF LuksFormat
<1>2. "luks" \in DOMAIN After /\ "open" \in DOMAIN After /\ After["luks"] = "open"
  BY StepOrder
<1>3. /\ TypeOK /\ ProcInv(p) /\ proc[p].step = "luks" /\ proc'[p].step = "open"
      /\ proc'[p].stick = d /\ proc'[p].failed = proc[p].failed
      /\ proc' \in ProcType /\ \A q \in Procs \ {p} : proc'[q] = proc[q]
      /\ d \in Sticks /\ arch \in {"x86_64", "aarch64"}
      /\ proc[p].failed = {} /\ d \notin spoilt => Before["luks"] \subseteq disk[d]
  BY <1>1, <1>2, LateFacts
<1>4. /\ disk' \in [Sticks -> SUBSET Work]
      /\ disk'[d] = (disk[d] \ {"fs", "layout", "files", "kdub", "tight"}) \cup {"luks"}
      /\ \A e \in Sticks \ {d} : disk'[e] = disk[e]
  BY <1>1, <1>3 DEF TypeOK, Work, Required, Content
<1>5. Before["open"] = Before["luks"] \cup {"luks"}
      /\ Before["luks"] = {"guid", "resize", "fat", "part", "type"}
  BY BeforeOrder
<1>6. ProcInv(p)'
  BY <1>1, <1>3, <1>4, <1>5 DEF ProcInv, Formatted, Inner, cache, flash
<1>7. "luks" \in Formatted /\ "open" \in Formatted /\ "open" \notin Inner
  BY DEF Formatted, Inner
<1> QED
  BY <1>1, <1>2, <1>3, <1>4, <1>6, <1>7, StickStep DEF TypeOK

\* luks_open takes the mapper name while nobody has it.
LEMMA LuksOpenStep ==
  ASSUME PInv, NEW p \in Procs, LuksOpen(p)
  PROVE  PInv'
<1> DEFINE d == proc[p].stick
<1>1. /\ Done(p, "open") /\ mapper = NoStick /\ mapper' = d
      /\ UNCHANGED <<disk, mounted, created>> /\ UNCHANGED cache /\ UNCHANGED flash
  BY DEF LuksOpen
<1>2. "open" \in DOMAIN After /\ "mkfs" \in DOMAIN After /\ After["open"] = "mkfs"
  BY StepOrder
<1>3. /\ TypeOK /\ ProcInv(p) /\ proc[p].step = "open" /\ proc'[p].step = "mkfs"
      /\ proc'[p].stick = d /\ proc'[p].failed = proc[p].failed
      /\ proc' \in ProcType /\ \A q \in Procs \ {p} : proc'[q] = proc[q]
      /\ d \in Sticks /\ arch \in {"x86_64", "aarch64"}
      /\ proc[p].failed = {} /\ d \notin spoilt => Before["open"] \subseteq disk[d]
  BY <1>1, <1>2, LateFacts
<1>4. ~mounted /\ mounted' = mounted
  BY <1>1, <1>3 DEF TypeOK
<1>5. Before["mkfs"] = Before["open"]
  BY BeforeOrder
<1>6. ProcInv(p)'
  BY <1>1, <1>3, <1>4, <1>5 DEF ProcInv, Formatted, Inner, cache, flash
<1>7. "open" \in Formatted
  BY DEF Formatted
<1>8. /\ disk' \in [Sticks -> SUBSET Work] /\ mapper' \in Sticks \cup {NoStick}
      /\ created' = created /\ disk' = disk
  BY <1>1, <1>3 DEF TypeOK
<1>11. mounted' \in BOOLEAN
  BY <1>3, <1>4, Zenon DEF TypeOK
<1>12. ~mounted'
  BY <1>4, Zenon
<1>9. /\ \A e \in Sticks \ {d} : disk'[e] = disk[e]
      /\ disk[d] \subseteq disk'[d]
      /\ UNCHANGED cache /\ UNCHANGED flash /\ mapper = NoStick
  BY <1>1, <1>8
<1>10. /\ proc[p].step = "open" /\ proc'[p].step = "mkfs" /\ proc'[p].stick = d
       /\ proc' \in ProcType /\ \A q \in Procs \ {p} : proc'[q] = proc[q]
  BY <1>3
<1> QED
  BY <1>2, <1>6, <1>7, <1>8, <1>9, <1>10, <1>11, <1>12, StickStep

LEMMA MkfsStep ==
  ASSUME PInv, NEW p \in Procs, Mkfs(p)
  PROVE  PInv'
<1> DEFINE d == proc[p].stick
<1>1. /\ Done(p, "mkfs") /\ ~mounted /\ UNCHANGED <<mapper, mounted, created>>
      /\ UNCHANGED cache /\ UNCHANGED flash /\ disk' = [disk EXCEPT ![mapper] = (@ \ Content) \cup {"fs"}]
  BY DEF Mkfs
<1>2. /\ "mkfs" \in DOMAIN After /\ "mount" \in DOMAIN After /\ After["mkfs"] = "mount"
      /\ "mkfs" \in Inner /\ "mkfs" \in Formatted /\ "mount" \in Inner
  BY StepOrder DEF Inner, Formatted
<1>3. /\ TypeOK /\ ProcInv(p) /\ proc[p].step = "mkfs" /\ proc'[p].step = "mount"
      /\ proc'[p].stick = d /\ proc'[p].failed = proc[p].failed
      /\ proc' \in ProcType /\ \A q \in Procs \ {p} : proc'[q] = proc[q]
      /\ d \in Sticks /\ arch \in {"x86_64", "aarch64"}
      /\ proc[p].failed = {} /\ d \notin spoilt => Before["mkfs"] \subseteq disk[d]
      /\ mapper = d
  BY <1>1, <1>2, LateFacts
<1>4. /\ disk' \in [Sticks -> SUBSET Work]
      /\ disk'[d] = (disk[d] \ {"layout", "files", "kdub", "tight"}) \cup {"fs"}
      /\ \A e \in Sticks \ {d} : disk'[e] = disk[e]
  BY <1>1, <1>3 DEF TypeOK, Work, Required, Content
<1>5. /\ Before["mount"] = Before["mkfs"] \cup {"fs"}
      /\ Before["mkfs"] = {"guid", "resize", "fat", "part", "type", "luks"}
  BY BeforeOrder
<1>6. ProcInv(p)'
  BY <1>1, <1>3, <1>4, <1>5 DEF ProcInv, Formatted, Inner, cache, flash
<1> QED
  BY <1>1, <1>2, <1>3, <1>4, <1>6, StickStep DEF TypeOK

\* mount, the three that fill the volume, and umount.
LEMMA MountStep ==
  ASSUME PInv, NEW p \in Procs, Mount(p)
  PROVE  PInv'
<1> DEFINE d == proc[p].stick
<1>1. /\ Done(p, "mount") /\ mounted' = TRUE /\ UNCHANGED <<disk, mapper, created>>
      /\ UNCHANGED cache /\ UNCHANGED flash
  BY DEF Mount
<1>2. /\ "mount" \in DOMAIN After /\ "layout" \in DOMAIN After /\ After["mount"] = "layout"
      /\ "mount" \in Inner /\ "mount" \in Formatted
  BY StepOrder DEF Inner, Formatted
<1>3. /\ TypeOK /\ ProcInv(p) /\ proc[p].step = "mount" /\ proc'[p].step = "layout"
      /\ proc'[p].stick = d /\ proc'[p].failed = proc[p].failed
      /\ proc' \in ProcType /\ \A q \in Procs \ {p} : proc'[q] = proc[q]
      /\ d \in Sticks /\ arch \in {"x86_64", "aarch64"}
      /\ proc[p].failed = {} /\ d \notin spoilt => Before["mount"] \subseteq disk[d]
      /\ mapper = d /\ mapper # NoStick
  BY <1>1, <1>2, LateFacts
<1>4. Before["layout"] = Before["mount"]
  BY BeforeOrder
<1>5. ProcInv(p)'
  BY <1>1, <1>3, <1>4 DEF ProcInv, Formatted, Inner, cache, flash
<1> QED
  BY <1>1, <1>2, <1>3, <1>5, StickStep DEF TypeOK

LEMMA FillStep ==
  ASSUME PInv, NEW p \in Procs,
         SetupPersistenceLayout(p) \/ PopulatePersistence(p) \/ TightenPermissions(p)
  PROVE  PInv'
<1> DEFINE d == proc[p].stick
<1>1. PICK step \in {"layout", "files", "tight"},
           done \in SUBSET {"layout", "files", "kdub", "tight"} :
        /\ Fill(p, step, done)
        /\ step = "layout" => "layout" \in done
        /\ step = "files" => "files" \in done
        /\ step = "files" /\ (arch = "x86_64" \/ binary = "kdub") => "kdub" \in done
  BY DEF SetupPersistenceLayout, PopulatePersistence, TightenPermissions
<1>2. /\ Done(p, step) /\ mounted /\ UNCHANGED <<mapper, mounted, created>> /\ UNCHANGED cache /\ UNCHANGED flash
      /\ disk' = [disk EXCEPT ![mapper] = @ \cup done]
  BY <1>1 DEF Fill
<1>3. /\ step \in DOMAIN After /\ After[step] \in DOMAIN After
      /\ step \in Inner /\ step \in Formatted
      /\ After[step] \in {"files", "tight", "umount"} /\ After[step] \in Inner
      /\ (step = "layout" <=> After[step] = "files")
      /\ (step = "files" <=> After[step] = "tight")
  BY StepOrder DEF Inner, Formatted
<1>4. /\ TypeOK /\ ProcInv(p) /\ proc[p].step = step /\ proc'[p].step = After[step]
      /\ proc'[p].stick = d /\ proc'[p].failed = proc[p].failed
      /\ proc' \in ProcType /\ \A q \in Procs \ {p} : proc'[q] = proc[q]
      /\ d \in Sticks /\ arch \in {"x86_64", "aarch64"}
      /\ proc[p].failed = {} /\ d \notin spoilt => Before[step] \subseteq disk[d]
      /\ mapper = d /\ mapper # NoStick
  BY <1>2, <1>3, LateFacts
<1>5. /\ disk' \in [Sticks -> SUBSET Work] /\ disk'[d] = disk[d] \cup done
      /\ \A e \in Sticks \ {d} : disk'[e] = disk[e]
  BY <1>2, <1>4 DEF TypeOK, Work, Required
<1>6. step = "files" => "kdub" \in done
  BY <1>1, <1>4 DEF ProcInv
<1>7. Before[After[step]] \subseteq Before[step] \cup done
  <2>1. CASE step = "layout"
    BY <1>1, <2>1, StepOrder, BeforeOrder
  <2>2. CASE step = "files"
    BY <1>1, <1>6, <2>2, StepOrder, BeforeOrder
  <2>3. CASE step = "tight"
    BY <2>3, StepOrder, BeforeOrder
  <2> QED
    BY <2>1, <2>2, <2>3
<1>8. ProcInv(p)'
  BY <1>2, <1>3, <1>4, <1>5, <1>7 DEF ProcInv, Formatted, Inner, cache, flash
<1> QED
  BY <1>2, <1>3, <1>4, <1>5, <1>8, StickStep DEF TypeOK

LEMMA UmountStep ==
  ASSUME PInv, NEW p \in Procs, Umount(p)
  PROVE  PInv'
<1> DEFINE d == proc[p].stick
<1>1. /\ Done(p, "umount") /\ mounted' = FALSE /\ UNCHANGED <<disk, mapper, created>>
      /\ UNCHANGED cache /\ UNCHANGED flash
  BY DEF Umount
<1>2. /\ "umount" \in DOMAIN After /\ "drop" \in DOMAIN After /\ After["umount"] = "drop"
      /\ "umount" \in Inner /\ "umount" \in Formatted
  BY StepOrder DEF Inner, Formatted
<1>3. /\ TypeOK /\ ProcInv(p) /\ proc[p].step = "umount" /\ proc'[p].step = "drop"
      /\ proc'[p].stick = d /\ proc'[p].failed = proc[p].failed
      /\ proc' \in ProcType /\ \A q \in Procs \ {p} : proc'[q] = proc[q]
      /\ d \in Sticks /\ arch \in {"x86_64", "aarch64"}
      /\ proc[p].failed = {} /\ d \notin spoilt => Before["umount"] \subseteq disk[d]
      /\ mapper = d /\ mapper # NoStick
  BY <1>1, <1>2, LateFacts
<1>4. Before["drop"] = Before["umount"]
  BY BeforeOrder
<1>5. ProcInv(p)'
  BY <1>1, <1>3, <1>4 DEF ProcInv, Formatted, Inner, cache, flash
<1> QED
  BY <1>1, <1>2, <1>3, <1>5, StickStep DEF TypeOK

\* The temporary directory loses files only after a failure.
LEMMA DropStep ==
  ASSUME PInv, NEW p \in Procs, Drop(p)
  PROVE  PInv'
<1> DEFINE d == proc[p].stick
<1>1. /\ Done(p, "drop") /\ UNCHANGED <<mapper, mounted, created>> /\ UNCHANGED cache /\ UNCHANGED flash
  BY DEF Drop
<1>2. /\ "drop" \in DOMAIN After /\ "close" \in DOMAIN After /\ After["drop"] = "close"
      /\ "drop" \in Inner /\ "drop" \in Formatted
  BY StepOrder DEF Inner, Formatted
<1>3. /\ TypeOK /\ ProcInv(p) /\ proc[p].step = "drop" /\ proc'[p].step = "close"
      /\ proc'[p].stick = d /\ proc'[p].failed = proc[p].failed
      /\ proc' \in ProcType /\ \A q \in Procs \ {p} : proc'[q] = proc[q]
      /\ d \in Sticks /\ arch \in {"x86_64", "aarch64"}
      /\ proc[p].failed = {} /\ d \notin spoilt => Before["drop"] \subseteq disk[d]
      /\ mapper = d /\ mapper # NoStick
  BY <1>1, <1>2, LateFacts
<1>4. /\ disk' \in [Sticks -> SUBSET Work]
      /\ disk[d] \ {"layout", "files", "kdub", "tight"} \subseteq disk'[d]
      /\ \A e \in Sticks \ {d} : disk'[e] = disk[e]
      /\ ~mounted => disk' = disk
  <2>1. CASE disk' = disk
    BY <1>3, <2>1 DEF TypeOK
  <2>2. ASSUME mounted, NEW lost \in SUBSET Content, disk' = [disk EXCEPT ![d] = @ \ lost]
        PROVE  /\ disk' \in [Sticks -> SUBSET Work]
               /\ disk[d] \ {"layout", "files", "kdub", "tight"} \subseteq disk'[d]
               /\ \A e \in Sticks \ {d} : disk'[e] = disk[e]
    BY <1>3, <2>2 DEF TypeOK, Content
  <2> QED
    BY <1>3, <2>1, <2>2 DEF Drop
<1>5. /\ Before["drop"] = Before["tight"] /\ Before["tight"] = Before["close"]
  BY BeforeOrder
<1>6. proc[p].failed = {} => ~mounted
  BY <1>3 DEF ProcInv
<1>7. ProcInv(p)'
  BY <1>1, <1>3, <1>4, <1>5, <1>6 DEF ProcInv, Formatted, Inner, cache, flash
<1> QED
  BY <1>1, <1>2, <1>3, <1>4, <1>7, StickStep DEF TypeOK

\* luks_close is reached with nothing missing, or with a failure on record.
LEMMA LuksCloseStep ==
  ASSUME PInv, NEW p \in Procs, LuksClose(p)
  PROVE  PInv'
<1> DEFINE d == proc[p].stick
<1>1. /\ At(p, "close") /\ Goto(p, "idle") /\ ~mounted /\ mapper' = NoStick
      /\ created' = IF proc[p].failed = {} THEN created \cup {d} ELSE created
      /\ UNCHANGED <<disk, mounted>> /\ UNCHANGED cache /\ UNCHANGED flash
  BY StepOrder DEF LuksClose, Done
<1>2. TypeOK /\ ProcInv(p) /\ proc[p].step = "close"
  BY <1>1 DEF PInv, At
<1>3. /\ proc'[p] = Idle /\ proc'[p].step = "idle"
      /\ \A q \in Procs \ {p} : proc'[q] = proc[q]
      /\ proc' \in ProcType
  BY <1>1, <1>2, Ended
<1>4. /\ d \in Sticks /\ mapper = d
      /\ proc[p].failed = {} /\ d \notin spoilt => Required \subseteq disk[d]
  BY <1>2, BeforeOrder DEF ProcInv, Inner
<1>5. /\ created' \in SUBSET Sticks /\ created' \subseteq created \cup {d}
      /\ UNCHANGED <<arch, archive, binary>> /\ UNCHANGED <<target, spoilt, flashes>>
  BY <1>1, <1>2, <1>4 DEF TypeOK, cache, flash
<1>6. TypeOK'
  BY <1>1, <1>2, <1>3, <1>5 DEF TypeOK, ProcType
<1>7. CreatedStaysComplete'
  BY <1>1, <1>4, <1>5 DEF PInv, CreatedStaysComplete
<1>8. ProcInv(p)'
  BY <1>3 DEF ProcInv, Formatted, Inner
<1>9. ASSUME NEW q \in Procs \ {p}
      PROVE  /\ proc[q].step \notin Inner
             /\ proc[q].step \in Formatted /\ proc[q].stick \notin spoilt =>
                  proc[q].stick \notin created'
  <2>1. ProcInv(q) /\ Apart(p, q)
    BY DEF PInv
  <2> QED
    BY <1>2, <1>5, <2>1 DEF Apart, ProcInv, Inner, Formatted
<1>10. proc'[p].step \notin Formatted /\ proc'[p].step \notin Inner
  BY <1>3 DEF Formatted, Inner
<1> QED
  BY <1>1, <1>2, <1>3, <1>5, <1>6, <1>7, <1>8, <1>9, <1>10, OneMoves

\* A run begins; where kdub has to be downloaded, alone.
LEMMA BeginStep ==
  ASSUME PInv, NEW p \in Procs, Begin(p)
  PROVE  PInv'
<1>1. PICK e \in Sticks :
        proc' = [proc EXCEPT ![p] = [Idle EXCEPT !.step = KdubBinarySource[arch], !.stick = e]]
  BY DEF Begin
<1>2. /\ proc[p] = Idle /\ arch \in {"x86_64", "aarch64"}
      /\ arch = "aarch64" => Alone
  BY DEF Begin, KdubBinarySource
<1>3. /\ UNCHANGED <<disk, mapper, mounted, created, arch, archive, binary>>
      /\ UNCHANGED <<target, spoilt, flashes>> /\ UNCHANGED cache
  BY DEF Begin, sticks, cache, flash
<1>4. TypeOK /\ proc \in ProcType
  BY DEF PInv, TypeOK, ProcType
<1> DEFINE first == KdubBinarySource[arch]
<1> DEFINE now == [Idle EXCEPT !.step = first, !.stick = e]
<1>5. /\ proc'[p].stick = e /\ proc'[p].failed = {} /\ proc'[p].step = first
      /\ \A q \in Procs \ {p} : proc'[q] = proc[q]
      /\ proc' = [proc EXCEPT ![p] = now]
  <2>1. now.stick = e /\ now.failed = {} /\ now.step = first
    BY DEF Idle
  <2>2. proc' = [proc EXCEPT ![p] = now]
    BY <1>1
  <2>3. proc'[p] = now /\ \A q \in Procs \ {p} : proc'[q] = proc[q]
    BY <1>4, <2>2 DEF ProcType
  <2> HIDE DEF now
  <2> QED BY <2>1, <2>2, <2>3
<1>6. first = IF arch = "x86_64" THEN "tools" ELSE "get"
  BY <1>2 DEF KdubBinarySource
<1> HIDE DEF first
<1>7. proc' \in ProcType
  <2>1. now \in [step : DOMAIN After \cup {"idle"}, stick : Sticks \cup {NoStick},
                 failed : SUBSET MayFail]
    BY <1>6, StepOrder DEF Idle
  <2> HIDE DEF now
  <2> QED BY <1>4, <1>5, <2>1 DEF ProcType
<1>8. TypeOK'
  BY <1>3, <1>4, <1>7 DEF TypeOK, ProcType
<1>9. ProcInv(p)'
  BY <1>2, <1>3, <1>5, <1>6, BeforeOrder DEF ProcInv, Formatted, Inner
<1>10. proc'[p].step \notin Formatted /\ proc'[p].step \notin Inner
  BY <1>5, <1>6 DEF Formatted, Inner
<1>11. CreatedStaysComplete'
  BY <1>3 DEF PInv, CreatedStaysComplete
<1>12. \A q \in Procs \ {p} :
        proc[q].step \in Formatted /\ proc[q].stick \notin spoilt => proc[q].stick \notin created'
  BY <1>3 DEF PInv, ProcInv
<1> QED
  BY <1>2, <1>3, <1>5, <1>8, <1>9, <1>10, <1>11, <1>12, OneMoves

\* A command fails: the run ends, or goes on to lock what it has unlocked.
LEMMA FailStep ==
  ASSUME PInv, NEW p \in Procs, NEW step \in MayFail, Fail(p, step)
  PROVE  PInv'
<1> DEFINE d == proc[p].stick
<1>1. /\ proc[p].step = step /\ UNCHANGED <<sticks, cache, flash>> /\ TypeOK /\ ProcInv(p)
      /\ step \in DOMAIN After /\ step # "idle"
  BY StepOrder DEF Fail, At, PInv
<1>2. CASE Goto(p, "idle")
  BY <1>1, <1>2, GoneStep DEF cache, flash
<1>3. CASE /\ OnFailure[step] # "idle"
           /\ proc' = [proc EXCEPT ![p] = [@ EXCEPT
                !.step = OnFailure[step], !.failed = proc[p].failed \cup ({step} \ {"tight"})]]
  <2> DEFINE next == OnFailure[step]
  <2>1. /\ step \in {"mkfs", "mount", "layout", "files", "tight", "umount"}
        /\ next \in {"close", "drop", "tight", "umount"}
        /\ (next = "tight" <=> step = "files") /\ (next = "umount" <=> step = "tight")
        /\ (next = "close" <=> step = "mkfs")
    BY <1>3, StepOrder, FailureOrder
  <2>2. next \in DOMAIN After /\ step \in Inner /\ next \in Inner /\ step \in Formatted
        /\ next \in Formatted
    BY <2>1, StepOrder DEF Inner, Formatted
  <2> DEFINE now == [proc[p] EXCEPT
                       !.step = next, !.failed = proc[p].failed \cup ({step} \ {"tight"})]
  <2>3. /\ proc'[p].step = next /\ proc'[p].stick = d
        /\ proc'[p].failed = proc[p].failed \cup ({step} \ {"tight"})
        /\ \A q \in Procs \ {p} : proc'[q] = proc[q]
    <3>1. proc \in ProcType
      BY <1>1 DEF TypeOK, ProcType
    <3> QED BY <1>3, <3>1 DEF ProcType
  <2>4. proc' \in ProcType
    <3>1. proc \in ProcType /\ proc' = [proc EXCEPT ![p] = now]
      BY <1>1, <1>3 DEF TypeOK, ProcType
    <3>2. now \in [step : DOMAIN After \cup {"idle"}, stick : Sticks \cup {NoStick},
                   failed : SUBSET MayFail]
      BY <2>2, <3>1 DEF ProcType
    <3> HIDE DEF now
    <3> QED BY <3>1, <3>2 DEF ProcType
  <2>5. /\ d \in Sticks /\ arch \in {"x86_64", "aarch64"} /\ mapper = d
        /\ d \notin spoilt => "part" \in disk[d] /\ d \notin created
        /\ proc[p].failed = {} /\ d \notin spoilt => Before[step] \subseteq disk[d]
    BY <1>1, <2>2 DEF ProcInv
  <2>6. /\ UNCHANGED <<disk, mapper, mounted, created, arch, archive, binary>>
        /\ UNCHANGED <<target, spoilt, flashes>>
    BY <1>1 DEF sticks, cache, flash
  <2>7. step = "tight" => Before[next] = Before[step]
    BY <2>1, BeforeOrder
  <2>8. step # "tight" => proc'[p].failed # {}
    BY <2>3
  <2>9. /\ step \in {"mkfs", "mount"} => ~mounted
        /\ step \in {"files", "tight"} => mounted
        /\ next = "drop" => step \in {"mount", "layout", "umount"}
    BY <1>1, <2>1, FailureOrder DEF ProcInv
  <2>10. ProcInv(p)'
    BY <1>1, <2>1, <2>2, <2>3, <2>5, <2>6, <2>7, <2>8, <2>9 DEF ProcInv
  <2> QED
    BY <1>1, <2>2, <2>3, <2>4, <2>5, <2>6, <2>10, StickStep DEF TypeOK, cache, flash
<1> QED
  BY <1>2, <1>3 DEF Fail

\* The owner locks by hand what a run has left.
LEMMA TidyUpStep == ASSUME PInv, TidyUp PROVE PInv'
<1>1. /\ \A p \in Procs : proc[p] = Idle
      /\ mapper' = NoStick /\ mounted' = FALSE
      /\ UNCHANGED <<disk, proc, created, arch, archive, binary, target, spoilt, flashes>>
  BY DEF TidyUp, Alone, cache, flash
<1>2. TypeOK'
  BY <1>1 DEF PInv, TypeOK
<1>3. \A p \in Procs : proc[p].step = "idle"
  BY <1>1 DEF Idle
<1> QED
  BY <1>1, <1>2, <1>3 DEF PInv, ProcInv, Apart, Formatted, Inner, CreatedStaysComplete

\* Who is not done with a stick is busy with it, but before its first command there.
LEMMA BusyOrNothingDone ==
  ASSUME TypeOK, NEW p \in Procs, proc[p].step # "idle", proc[p].stick \notin Busy
  PROVE  Before[proc[p].step] = {} /\ proc[p].step \notin Formatted
<1>1. proc[p].step \in Untouched
  BY DEF Busy
<1> QED
  BY <1>1, BeforeOrder DEF Untouched, Formatted, Inner

\* `tails flash` writes: a stick that a run is busy with is spoilt, and on any other one
\* nothing has been done that a run could count on.
LEMMA WriteImageStep ==
  ASSUME PInv, NEW d \in Sticks, WriteImage(d)
  PROVE  PInv'
<1>1. /\ disk' = [disk EXCEPT ![d] = {}] /\ created' = created \ {d}
      /\ spoilt' = IF d \in Busy THEN spoilt \cup {d} ELSE spoilt \ {d}
      /\ UNCHANGED <<mapper, mounted, proc, arch, archive, binary, target, flashes>>
  BY DEF WriteImage, cache
<1>2. TypeOK /\ TypeOK'
  BY <1>1 DEF PInv, TypeOK
<1>3. ASSUME NEW p \in Procs PROVE ProcInv(p)'
  <2>1. ProcInv(p)
    BY DEF PInv
  <2>2. proc[p].step \in Formatted => proc[p].step # "idle"
    BY DEF Formatted, Inner
  <2>3. CASE proc[p].step # "idle" /\ proc[p].stick # d
    <3>1. /\ disk'[proc[p].stick] = disk[proc[p].stick]
          /\ proc[p].stick \in created' <=> proc[p].stick \in created
          /\ proc[p].stick \in spoilt' <=> proc[p].stick \in spoilt
      BY <1>1, <1>2, <2>1, <2>3 DEF ProcInv, TypeOK
    <3> QED
      BY <1>1, <2>1, <2>2, <3>1 DEF ProcInv
  <2>4. CASE proc[p].step # "idle" /\ proc[p].stick = d
    <3>1. d \notin spoilt' => Before[proc[p].step] = {} /\ proc[p].step \notin Formatted
      BY <1>1, <1>2, <2>4, BusyOrNothingDone
    <3> QED
      BY <1>1, <2>1, <2>4, <3>1 DEF ProcInv
  <2>5. CASE proc[p].step = "idle"
    BY <1>1, <2>1, <2>2, <2>5 DEF ProcInv
  <2> QED
    BY <2>3, <2>4, <2>5
<1>4. ASSUME NEW p \in Procs, NEW q \in Procs, p # q PROVE Apart(p, q)'
  <2>1. Apart(p, q)
    BY <1>4 DEF PInv
  <2>2. CASE proc[p].step \in Formatted /\ proc[p].stick = d
    <3>1. proc[p].step # "idle"
      BY <2>2 DEF Formatted, Inner
    <3>2. d \in spoilt'
      BY <1>1, <1>2, <2>2, <3>1, BusyOrNothingDone
    <3> QED
      BY <1>1, <2>1, <2>2, <3>2 DEF Apart
  <2>3. CASE ~(proc[p].step \in Formatted /\ proc[p].stick = d)
    BY <1>1, <2>1, <2>3 DEF Apart
  <2> QED
    BY <2>2, <2>3
<1>5. CreatedStaysComplete'
  BY <1>1, <1>2 DEF PInv, CreatedStaysComplete, TypeOK
<1> QED
  BY <1>2, <1>3, <1>4, <1>5 DEF PInv

\* The beginning and the end of a `tails flash` change no stick.
LEMMA FlashStep ==
  ASSUME PInv, NEW d \in Sticks, ValidateFlashTarget(d) \/ WriteImage(d) \/ EndFlash(d)
  PROVE  PInv'
<1>1. CASE ValidateFlashTarget(d) \/ EndFlash(d)
  <2>1. /\ target' \in SUBSET Sticks
        /\ UNCHANGED <<disk, mapper, mounted, created, proc, arch, archive, binary, spoilt>>
    BY <1>1 DEF ValidateFlashTarget, EndFlash, sticks, cache, PInv, TypeOK
  <2>2. flashes' \in 0..MaxFlashes
    <3>1. flashes \in 0..MaxFlashes
      BY DEF PInv, TypeOK
    <3>2. CASE ValidateFlashTarget(d)
      <4>1. flashes < MaxFlashes /\ flashes' = flashes + 1
        BY <3>2 DEF ValidateFlashTarget
      <4> QED
        BY <3>1, <4>1, FlashAssumption
    <3>3. CASE EndFlash(d)
      BY <3>1, <3>3 DEF EndFlash
    <3> QED
      BY <1>1, <3>2, <3>3
  <2> QED
    BY <2>1, <2>2 DEF PInv, TypeOK, ProcInv, Apart, CreatedStaysComplete
<1> QED
  BY <1>1, WriteImageStep

\* The download of a kdub: only a signed archive is unpacked, and only what was unpacked
\* from it is put on a stick.
LEMMA FetchStep ==
  ASSUME PInv, NEW p \in Procs, Fetch(p) \/ CheckTools(p)
  PROVE  PInv'
<1>1. TypeOK /\ ProcInv(p)
  BY DEF PInv
<1>2. CASE CreateArchive(p)
  BY <1>1, <1>2, EarlyStep, StepOrder DEF CreateArchive, TypeOK
<1>3. CASE DownloadArchive(p)
  <2>1. CASE Done(p, "fill") /\ archive' \in {"torn", "signed", "not signed"}
    BY <1>1, <1>3, <2>1, EarlyStep, StepOrder DEF DownloadArchive, TypeOK
  <2>2. CASE At(p, "fill") /\ Goto(p, "idle") /\ archive' = "absent"
    BY <1>3, <2>2, GoneStep DEF DownloadArchive, At
  <2> QED
    BY <1>3, <2>1, <2>2 DEF DownloadArchive
<1>4. CASE VerifyArchive(p)
  <2>1. CASE Done(p, "verify") /\ archive = "signed" /\ UNCHANGED <<sticks, cache, flash>>
    BY <1>1, <2>1, EarlyStep, StepOrder DEF cache, TypeOK
  <2>2. CASE At(p, "verify") /\ Goto(p, "idle") /\ archive' = "absent"
    BY <1>4, <2>2, GoneStep DEF VerifyArchive, At, cache
  <2> QED
    BY <1>4, <2>1, <2>2 DEF VerifyArchive
<1>5. CASE ExtractBinary(p)
  <2>1. proc[p].step = "extract"
    BY <1>5 DEF ExtractBinary, Done, At
  <2>2. archive' = "signed"
    BY <1>1, <1>5, <2>1 DEF ExtractBinary, ProcInv
  <2> QED
    BY <1>1, <1>5, <2>2, EarlyStep, StepOrder DEF ExtractBinary, TypeOK
<1>6. CASE UnpackBinary(p)
  <2>1. proc[p].step = "unpack"
    BY <1>6 DEF UnpackBinary, Done, At
  <2>2. binary' = "kdub"
    BY <1>1, <1>6, <2>1 DEF UnpackBinary, ProcInv
  <2> QED
    BY <1>1, <1>6, <2>2, EarlyStep, StepOrder DEF UnpackBinary, TypeOK
<1>7. CASE CheckTools(p)
  <2>1. proc[p].step = "tools"
    BY <1>7 DEF CheckTools, Done, At
  <2>2. arch = "aarch64" => binary = "kdub"
    BY <1>1, <2>1 DEF ProcInv
  <2> QED
    BY <1>1, <1>7, <2>2, EarlyStep, StepOrder DEF CheckTools, cache, TypeOK
<1> QED
  BY <1>2, <1>3, <1>4, <1>5, <1>6, <1>7 DEF Fetch

LEMMA KillStep ==
  ASSUME PInv, NEW p \in Procs, Kill(p)
  PROVE  PInv'
<1>1. proc[p].step # "idle"
  BY DEF Kill, PInv, ProcInv
<1> QED
  BY <1>1, GoneStep DEF Kill, cache

LEMMA InitInvariant == Init => PInv
<1> SUFFICES ASSUME Init PROVE PInv
  OBVIOUS
<1>1. \A p \in Procs : proc[p] = Idle /\ proc[p].step = "idle"
  BY DEF Init, Idle
<1>2. TypeOK
  <2>1. flashes \in 0..MaxFlashes
    BY FlashAssumption DEF Init
  <2>2. Idle \in [step : DOMAIN After \cup {"idle"}, stick : Sticks \cup {NoStick},
                  failed : SUBSET MayFail]
    BY DEF Idle
  <2> QED
    BY <2>1, <2>2 DEF Init, TypeOK
<1>3. created = {}
  BY DEF Init
<1> QED
  BY <1>1, <1>2, <1>3 DEF PInv, ProcInv, Apart, Formatted, Inner, CreatedStaysComplete

\* The invariant is inductive.
LEMMA StepInvariant == PInv /\ [Next]_vars => PInv'
<1> SUFFICES ASSUME PInv, [Next]_vars PROVE PInv'
  OBVIOUS
<1>1. ASSUME NEW p \in Procs, Command(p) PROVE PInv'
  BY <1>1, FetchStep, PartitionStep, LuksFormatStep, LuksOpenStep, MkfsStep, MountStep, FillStep,
     UmountStep, DropStep, LuksCloseStep DEF Command
<1>2. CASE Next
  BY <1>1, <1>2, BeginStep, KillStep, FailStep, TidyUpStep, FlashStep DEF Next
<1>3. CASE UNCHANGED vars
  BY <1>3 DEF vars, sticks, cache, flash, PInv, TypeOK, ProcInv, Apart, CreatedStaysComplete
<1> QED
  BY <1>2, <1>3

\* What holds of the sticks, the mapper name and the runs, whatever is tried and
\* wherever it fails or is killed.
THEOREM Invariant == Spec => []PInv
BY InitInvariant, StepInvariant, PTL DEF Spec

\* Every variable has its type; only an unlocked volume is mounted.
THEOREM TypeCorrect == Spec => []TypeOK
BY Invariant, PTL DEF PInv

\* What was reported as created has everything that Tails looks for and a kdub that was
\* signed, and keeps it: no run on that or another stick can take it away, and no flash
\* goes unnoticed but one that validate_flash_target lets onto a stick under a run.
THEOREM CreatedIsComplete == Spec => []CreatedStaysComplete
BY Invariant, PTL DEF PInv

\* The run that is between luks_open and luks_close has the mapper name to itself.
THEOREM RunsHaveTheirVolume == Spec => []OwnVolume
<1>1. PInv => OwnVolume
  BY DEF PInv, ProcInv, Inner, OwnVolume
<1> QED
  BY <1>1, Invariant, PTL

\* luks_close finds the volume unmounted but after the two failures that leave it so.
THEOREM ClosesUnmounted == Spec => []UnmountedAtClose
<1>1. PInv => UnmountedAtClose
  BY DEF PInv, ProcInv, UnmountedAtClose, At
<1> QED
  BY <1>1, Invariant, PTL

\* A stick is reported only when its volume is unmounted and locked.
THEOREM CreatedIsLocked == Spec => LockedWhenCreated
<1>1. PInv /\ [Next]_vars => [\A d \in created' \ created : mapper' # d /\ ~mounted']_vars
  <2> SUFFICES ASSUME PInv, [Next]_vars, NEW d \in created', d \notin created
               PROVE  mapper' # d /\ ~mounted'
    OBVIOUS
  <2>1. PICK p \in Procs : LuksClose(p)
    <3>1. CASE Next /\ \A p \in Procs : ~LuksClose(p)
      BY <3>1 DEF Next, Command, Fetch, Begin, CreateArchive, DownloadArchive, VerifyArchive,
                  ExtractBinary, UnpackBinary, CheckTools, Partition, LuksFormat, LuksOpen,
                  Mkfs, Mount, SetupPersistenceLayout, PopulatePersistence,
                  TightenPermissions, Fill, Umount, Drop, Kill, Fail, TidyUp,
                  ValidateFlashTarget, WriteImage, EndFlash, sticks
    <3> QED
      BY <3>1 DEF vars, sticks
  <2>2. mapper' = NoStick /\ ~mounted' /\ d = proc[p].stick
    BY <2>1 DEF LuksClose
  <2>3. d \in Sticks
    <3>1. proc[p].step = "close"
      BY <2>1 DEF LuksClose, Done, At
    <3> QED
      BY <2>2, <3>1 DEF PInv, ProcInv
  <2> QED
    BY <2>2, <2>3, StickAssumption
<1> QED
  BY <1>1, Invariant, PTL DEF Spec, LockedWhenCreated
-----------------------------------------------------------------------------
(* The sticks keep the promise of PersistentStick.                         *)

\* Reported, and not flashed under a run.
Kept == created \ spoilt

\* A run that goes on with its stick is busy with it from then on.
LEMMA BusyOn ==
  ASSUME NEW p \in Procs, \A q \in Procs \ {p} : proc'[q] = proc[q],
         proc'[p].stick = proc[p].stick, proc'[p].step \notin Untouched
  PROVE  Busy' = Busy \cup {proc[p].stick}
<1>1. ASSUME NEW d PROVE d \in Busy' <=> \E q \in Procs : proc'[q].step \notin Untouched
                                                       /\ proc'[q].stick = d
  BY DEF Busy
<1>2. ASSUME NEW d PROVE d \in Busy <=> \E q \in Procs : proc[q].step \notin Untouched
                                                      /\ proc[q].stick = d
  BY DEF Busy
<1>3. ASSUME NEW d PROVE d \in Busy' <=> d \in Busy \cup {proc[p].stick}
  BY <1>1, <1>2
<1> QED
  BY <1>3

\* A run that has its stick behind it leaves it to those that are still busy there.
LEMMA BusyOff ==
  ASSUME NEW p \in Procs, \A q \in Procs \ {p} : proc'[q] = proc[q],
         proc'[p].step \in Untouched
  PROVE  /\ Busy' = Busy \/ Busy' = Busy \ {proc[p].stick}
         /\ proc[p].step \in Untouched => Busy' = Busy
<1>1. ASSUME NEW d PROVE d \in Busy' <=> \E q \in Procs \ {p} : proc[q].step \notin Untouched
                                                             /\ proc[q].stick = d
  BY DEF Busy
<1>2. ASSUME NEW d PROVE d \in Busy <=> \E q \in Procs : proc[q].step \notin Untouched
                                                      /\ proc[q].stick = d
  BY DEF Busy
<1>3. CASE proc[p].step \in Untouched
  <2>1. ASSUME NEW d PROVE d \in Busy' <=> d \in Busy
    BY <1>1, <1>2, <1>3
  <2>2. Busy' = Busy
    BY <2>1
  <2> QED
    BY <2>2
<1>4. CASE proc[p].step \notin Untouched /\ proc[p].stick \in Busy'
  <2>1. ASSUME NEW d PROVE d \in Busy' <=> d \in Busy
    BY <1>1, <1>2, <1>4
  <2>2. Busy' = Busy
    BY <2>1
  <2> QED
    BY <2>2, <1>4
<1>5. CASE proc[p].step \notin Untouched /\ proc[p].stick \notin Busy'
  <2>1. ASSUME NEW d PROVE d \in Busy' <=> d \in Busy \ {proc[p].stick}
    BY <1>1, <1>2, <1>5
  <2>2. Busy' = Busy \ {proc[p].stick}
    BY <2>1
  <2> QED
    BY <2>2, <1>5
<1> QED
  BY <1>3, <1>4, <1>5

LEMMA BusySame == ASSUME UNCHANGED proc PROVE Busy' = Busy
BY DEF Busy

\* The step a command leads to.
LEMMA CommandMoves ==
  ASSUME TypeOK, NEW p \in Procs, NEW step \in DOMAIN After \ {"close"}, Done(p, step)
  PROVE  /\ proc[p].step = step /\ proc'[p].step = After[step]
         /\ proc'[p].stick = proc[p].stick
         /\ \A q \in Procs \ {p} : proc'[q] = proc[q]
<1>1. After[step] \in DOMAIN After
  BY StepOrder
<1> QED
  BY <1>1, Moved

\* A run at a command that changes its stick is busy with it, and stays so.
LEMMA BusyCommand ==
  ASSUME TypeOK, NEW p \in Procs,
         NEW step \in {"guid", "resize", "fat", "part", "type", "luks", "open", "mkfs", "mount",
                       "layout", "files", "tight", "umount", "drop"},
         Done(p, step)
  PROVE  /\ proc[p].step = step /\ Busy' = Busy \cup {proc[p].stick}
         /\ step # "guid" => proc[p].stick \in Busy /\ Busy' = Busy
<1>1. /\ step \in DOMAIN After \ {"close"} /\ After[step] \notin Untouched
      /\ step # "guid" => step \notin Untouched
  BY StepOrder DEF Untouched
<1>2. /\ proc[p].step = step /\ proc'[p].step = After[step]
      /\ proc'[p].stick = proc[p].stick
      /\ \A q \in Procs \ {p} : proc'[q] = proc[q]
  BY <1>1, CommandMoves
<1>3. Busy' = Busy \cup {proc[p].stick}
  BY <1>1, <1>2, BusyOn
<1>4. step # "guid" => proc[p].stick \in Busy
  BY <1>1, <1>2 DEF Busy
<1> QED
  BY <1>2, <1>3, <1>4

\* One stick that is not kept is worked on.
LEMMA ChangeIsStick ==
  ASSUME TypeOK, TypeOK', NEW d \in Sticks, d \notin Kept, NEW new,
         disk' = [disk EXCEPT ![d] = new], UNCHANGED <<mapper, mounted, created, spoilt>>,
         Busy' = Busy \cup {d},
         d # mapper => new \cap (Content \cup {"fs"}) \subseteq disk[d]
  PROVE  Stick!Next
<1>1. disk \in [Sticks -> SUBSET Work] /\ disk' \in [Sticks -> SUBSET Work]
  BY DEF TypeOK
<1>2. disk'[d] = new /\ \A e \in Sticks \ {d} : disk'[e] = disk[e]
  BY <1>1
<1>3. Stick!Change(d)
  BY <1>1, <1>2 DEF Stick!Change, Stick!Kept, Kept
<1> QED
  BY <1>3 DEF Stick!Next

\* Who works on the volume has its own, which is not one to be kept.
LEMMA InnerStick ==
  ASSUME PInv, NEW p \in Procs, proc[p].step \in Inner
  PROVE  /\ mapper = proc[p].stick /\ mapper \in Sticks /\ mapper # NoStick
         /\ mapper \notin Kept
<1>1. ProcInv(p)
  BY DEF PInv
<1>2. proc[p].step \in Formatted /\ proc[p].step # "idle"
  BY DEF Inner, Formatted
<1> QED
  BY <1>1, <1>2, StickAssumption DEF ProcInv, Kept

\* The commands up to luks_open: on a stick that was reported they find done what
\* they do, and do not get past mkpart.
LEMMA EarlyIsStick ==
  ASSUME PInv, PInv', NEW p \in Procs,
         (\E w \in {"guid", "resize", "fat", "part", "type"} : Partition(p, w))
           \/ LuksFormat(p) \/ LuksOpen(p)
  PROVE  [Stick!Next]_(Stick!vars)
<1> DEFINE d == proc[p].stick
<1>1. /\ TypeOK /\ TypeOK' /\ ProcInv(p) /\ CreatedStaysComplete
      /\ disk \in [Sticks -> SUBSET Work]
  BY DEF PInv, TypeOK
<1>2. ASSUME NEW w \in {"guid", "resize", "fat", "part", "type"}, Partition(p, w)
      PROVE  [Stick!Next]_(Stick!vars)
  <2>1. /\ Done(p, w) /\ disk' = [disk EXCEPT ![d] = disk[d] \cup {w}]
        /\ UNCHANGED <<mapper, mounted, created, spoilt>>
    BY <1>2 DEF Partition, flash
  <2>2. proc[p].step = w /\ Busy' = Busy \cup {d}
    BY <1>1, <2>1, BusyCommand
  <2>3. d \in Sticks
    BY <1>1, <2>2 DEF ProcInv
  <2>4. CASE d \in Kept
    <3>1. w \in disk[d]
      BY <1>1, <2>4 DEF CreatedStaysComplete, Required, Kept
    <3>2. disk' = disk
      <4>1. disk[d] \cup {w} = disk[d]
        BY <3>1
      <4> QED BY <1>1, <2>1, <4>1
    <3>3. Stick!Begin(d)
      BY <2>1, <2>2, <3>2 DEF Stick!Begin
    <3> QED BY <2>3, <3>3 DEF Stick!Next
  <2>5. CASE d \notin Kept
    <3>1. (disk[d] \cup {w}) \cap (Content \cup {"fs"}) \subseteq disk[d]
      BY DEF Content
    <3> HIDE DEF d
    <3> QED BY <1>1, <2>1, <2>2, <2>3, <2>5, <3>1, ChangeIsStick
  <2> QED BY <2>4, <2>5
<1>3. CASE LuksFormat(p)
  <2>1. /\ Done(p, "luks") /\ UNCHANGED <<mapper, mounted, created, spoilt>>
        /\ disk' = [disk EXCEPT ![d] = (disk[d] \ ({"fs"} \cup Content)) \cup {"luks"}]
    BY <1>3 DEF LuksFormat, flash
  <2>2. proc[p].step = "luks" /\ Busy' = Busy \cup {d}
    BY <1>1, <2>1, BusyCommand
  <2>3. d \in Sticks /\ d \notin Kept
    BY <1>1, <2>2 DEF ProcInv, Formatted, Kept
  <2>4. ((disk[d] \ ({"fs"} \cup Content)) \cup {"luks"}) \cap (Content \cup {"fs"}) \subseteq disk[d]
    BY DEF Content
  <2> HIDE DEF d
  <2> QED BY <1>1, <2>1, <2>2, <2>3, <2>4, ChangeIsStick
<1>4. CASE LuksOpen(p)
  <2>1. /\ Done(p, "open") /\ mapper = NoStick /\ mapper' = d
        /\ UNCHANGED <<disk, mounted, created, spoilt>>
    BY <1>4 DEF LuksOpen, flash
  <2>2. proc[p].step = "open" /\ d \in Busy /\ Busy' = Busy
    BY <1>1, <2>1, BusyCommand
  <2>3. d \in Sticks /\ d \notin Kept
    BY <1>1, <2>2 DEF ProcInv, Formatted, Kept
  <2> HIDE DEF d
  <2>4. Stick!Unlock(d)
    BY <2>1, <2>2, <2>3 DEF Stick!Unlock, Stick!Kept, Kept
  <2> QED BY <2>3, <2>4 DEF Stick!Next
<1> QED BY <1>2, <1>3, <1>4

\* The commands on the unlocked volume.
LEMMA InnerIsStick ==
  ASSUME PInv, PInv', NEW p \in Procs,
         Mkfs(p) \/ Mount(p) \/ SetupPersistenceLayout(p) \/ PopulatePersistence(p)
           \/ TightenPermissions(p) \/ Umount(p) \/ Drop(p)
  PROVE  [Stick!Next]_(Stick!vars)
<1>1. TypeOK /\ TypeOK' /\ ProcInv(p)
  BY DEF PInv
<1>2. PICK step \in {"mkfs", "mount", "layout", "files", "tight", "umount", "drop"} :
        Done(p, step) /\ UNCHANGED spoilt
  BY DEF Mkfs, Mount, SetupPersistenceLayout, PopulatePersistence, TightenPermissions, Fill,
         Umount, Drop, flash
<1>3. /\ proc[p].step \in Inner /\ Busy' = Busy /\ Busy' = Busy \cup {proc[p].stick}
  BY <1>1, <1>2, BusyCommand DEF Inner
<1>4. mapper = proc[p].stick /\ mapper \in Sticks /\ mapper # NoStick /\ mapper \notin Kept
  BY <1>3, InnerStick
<1>5. ASSUME NEW new, disk' = [disk EXCEPT ![mapper] = new], UNCHANGED <<mapper, mounted, created>>
      PROVE  Stick!Next
  <2>1. PICK d : d = mapper
    OBVIOUS
  <2> QED BY <1>1, <1>2, <1>3, <1>4, <1>5, <2>1, ChangeIsStick
<1>6. CASE Mkfs(p)
  BY <1>5, <1>6 DEF Mkfs
<1>7. CASE SetupPersistenceLayout(p) \/ PopulatePersistence(p) \/ TightenPermissions(p)
  BY <1>5, <1>7 DEF SetupPersistenceLayout, PopulatePersistence, TightenPermissions, Fill
<1>8. CASE Drop(p)
  <2>1. CASE UNCHANGED disk
    BY <1>2, <1>3, <1>8, <2>1 DEF Drop, Stick!vars
  <2>2. CASE \E lost \in SUBSET Content : disk' = [disk EXCEPT ![mapper] = @ \ lost]
    BY <1>5, <1>8, <2>2 DEF Drop
  <2> QED BY <1>8, <2>1, <2>2 DEF Drop
<1>9. CASE Mount(p)
  <2>1. Stick!Mount
    BY <1>2, <1>3, <1>9 DEF Mount, Stick!Mount
  <2> QED BY <2>1 DEF Stick!Next
<1>10. CASE Umount(p)
  <2>1. Stick!Unmount
    BY <1>2, <1>3, <1>10 DEF Umount, Stick!Unmount
  <2> QED BY <2>1 DEF Stick!Next
<1> QED BY <1>6, <1>7, <1>8, <1>9, <1>10

\* luks_close: the stick is ready, or was at least locked.
LEMMA CloseIsStick ==
  ASSUME PInv, PInv', NEW p \in Procs, LuksClose(p)
  PROVE  [Stick!Next]_(Stick!vars)
<1>1. TypeOK /\ ProcInv(p)
  BY DEF PInv
<1>2. /\ proc[p].step = "close" /\ Goto(p, "idle") /\ ~mounted /\ mapper' = NoStick
      /\ UNCHANGED <<disk, mounted, spoilt>>
      /\ created' = IF proc[p].failed = {} THEN created \cup {proc[p].stick} ELSE created
  BY StepOrder DEF LuksClose, Done, At, flash
<1>3. mapper = proc[p].stick /\ mapper # NoStick
  BY <1>2, InnerStick DEF Inner
<1>4. Busy' = Busy \/ Busy' = Busy \ {mapper}
  BY <1>1, <1>2, <1>3, Ended, BusyOff DEF Untouched
<1>5. CASE proc[p].failed = {}
  <2>1. mapper \notin spoilt => Required \subseteq disk[mapper]
    BY <1>1, <1>2, <1>3, <1>5, BeforeOrder DEF ProcInv
  <2>2. Stick!Finish
    BY <1>2, <1>3, <1>4, <1>5, <2>1 DEF Stick!Finish
  <2> QED BY <2>2 DEF Stick!Next
<1>6. CASE proc[p].failed # {}
  <2>1. mounted' = FALSE
    BY <1>1, <1>2 DEF TypeOK
  <2>2. Stick!Lock
    BY <1>2, <1>4, <1>6, <2>1 DEF Stick!Lock
  <2> QED BY <2>2 DEF Stick!Next
<1> QED BY <1>5, <1>6

\* Before its first command on a stick a run is not seen there.
LEMMA QuietIsStick ==
  ASSUME PInv, NEW p \in Procs, Begin(p) \/ CheckTools(p) \/ Fetch(p)
  PROVE  [Stick!Next]_(Stick!vars)
<1>1. TypeOK /\ UNCHANGED <<sticks, spoilt>>
  <2>1. UNCHANGED sticks
    BY DEF Begin, CheckTools, Fetch, CreateArchive, DownloadArchive, VerifyArchive, ExtractBinary,
           UnpackBinary
  <2>2. UNCHANGED flash
    BY DEF Begin, CheckTools, Fetch, CreateArchive, DownloadArchive, VerifyArchive, ExtractBinary,
           UnpackBinary
  <2> QED
    BY <2>1, <2>2 DEF PInv, flash
<1>2. /\ proc[p].step \in Untouched /\ proc'[p].step \in Untouched
      /\ \A q \in Procs \ {p} : proc'[q] = proc[q]
  <2>1. CASE Begin(p)
    <3>1. PICK d \in Sticks : proc' =
            [proc EXCEPT ![p] = [Idle EXCEPT !.step = KdubBinarySource[arch], !.stick = d]]
      BY <2>1 DEF Begin
    <3>2. proc[p] = Idle /\ KdubBinarySource[arch] \in {"tools", "get"}
      BY <2>1 DEF Begin, KdubBinarySource
    <3>3. /\ proc'[p] = [Idle EXCEPT !.step = KdubBinarySource[arch], !.stick = d]
          /\ \A q \in Procs \ {p} : proc'[q] = proc[q]
      BY <1>1, <3>1 DEF TypeOK
    <3>4. proc'[p].step = KdubBinarySource[arch]
      BY <3>3 DEF Idle
    <3> QED
      BY <3>2, <3>3, <3>4 DEF Idle, Untouched
  <2>2. ASSUME Goto(p, "idle"), proc[p].step \in {"fill", "verify"}
        PROVE  /\ proc[p].step \in Untouched /\ proc'[p].step \in Untouched
               /\ \A q \in Procs \ {p} : proc'[q] = proc[q]
    BY <1>1, <2>2, Ended DEF Untouched
  <2>3. ASSUME NEW step \in {"get", "fill", "verify", "extract", "unpack", "tools"}, Done(p, step)
        PROVE  /\ proc[p].step \in Untouched /\ proc'[p].step \in Untouched
               /\ \A q \in Procs \ {p} : proc'[q] = proc[q]
    <3>1. step \in DOMAIN After \ {"close"} /\ step \in Untouched /\ After[step] \in Untouched
      BY StepOrder DEF Untouched
    <3> QED
      BY <1>1, <2>3, <3>1, CommandMoves
  <2> QED
    BY <2>1, <2>2, <2>3 DEF CheckTools, Fetch, CreateArchive, DownloadArchive, VerifyArchive,
                            ExtractBinary, UnpackBinary, At
<1>3. Busy' = Busy
  BY <1>2, BusyOff
<1> QED
  BY <1>1, <1>3 DEF sticks, Stick!vars

\* A run that ends or fails leaves its stick, or goes on to lock it.
LEMMA EndIsStick ==
  ASSUME PInv, NEW p \in Procs, Kill(p) \/ \E step \in MayFail : Fail(p, step)
  PROVE  [Stick!Next]_(Stick!vars)
<1>1. TypeOK /\ ProcInv(p) /\ UNCHANGED <<sticks, flash>>
  BY DEF PInv, Kill, Fail
<1>2. UNCHANGED <<disk, mapper, mounted, created, spoilt>>
  BY <1>1 DEF sticks, flash
<1>3. proc[p].step # "idle"
  BY <1>1, StepOrder DEF Kill, Fail, At, ProcInv
<1>4. proc[p].stick \in Sticks
  BY <1>1, <1>3 DEF ProcInv
<1>5. CASE Goto(p, "idle")
  <2>1. Busy' = Busy \/ Busy' = Busy \ {proc[p].stick}
    BY <1>1, <1>5, Ended, BusyOff DEF Untouched
  <2>2. CASE Busy' = Busy
    BY <1>2, <2>2 DEF Stick!vars
  <2>3. CASE Busy' = Busy \ {proc[p].stick}
    <3>1. Stick!Leave(proc[p].stick)
      BY <1>2, <2>3 DEF Stick!Leave
    <3> QED BY <1>4, <3>1 DEF Stick!Next
  <2> QED BY <2>1, <2>2, <2>3
<1>6. ASSUME NEW step \in MayFail, Fail(p, step), OnFailure[step] # "idle",
             proc' = [proc EXCEPT ![p] = [@ EXCEPT
               !.step = OnFailure[step], !.failed = proc[p].failed \cup ({step} \ {"tight"})]]
      PROVE  [Stick!Next]_(Stick!vars)
  <2>1. step \notin Untouched /\ OnFailure[step] \notin Untouched
    BY <1>6, StepOrder, FailureOrder DEF Untouched
  <2>2. /\ proc[p].step = step /\ proc'[p].step = OnFailure[step]
        /\ proc'[p].stick = proc[p].stick /\ \A q \in Procs \ {p} : proc'[q] = proc[q]
    <3>1. proc[p].step = step
      BY <1>6 DEF Fail, At
    <3>2. proc \in ProcType
      BY <1>1 DEF TypeOK, ProcType
    <3> QED
      BY <1>6, <3>1, <3>2 DEF ProcType
  <2>3. Busy' = Busy \cup {proc[p].stick} /\ proc[p].stick \in Busy
    <3>1. proc[p].stick \in Busy
      BY <2>1, <2>2 DEF Busy
    <3> QED BY <2>1, <2>2, <3>1, BusyOn
  <2> QED BY <1>2, <2>3 DEF Stick!vars
<1> QED BY <1>5, <1>6 DEF Kill, Fail

\* Every step is one of PersistentStick, or not seen there.
LEMMA StepIsStick == ASSUME PInv, PInv', [Next]_vars PROVE [Stick!Next]_(Stick!vars)
<1>1. ASSUME UNCHANGED <<sticks, proc, spoilt>> PROVE UNCHANGED Stick!vars
  BY <1>1, BusySame DEF sticks, Stick!vars
<1>2. CASE UNCHANGED vars
  BY <1>1, <1>2 DEF vars, flash
<1>3. CASE TidyUp
  <2>1. Stick!Lock
    BY <1>3, BusySame DEF TidyUp, Stick!Lock, flash
  <2> QED BY <2>1 DEF Stick!Next
<1>4. ASSUME NEW d \in Sticks, ValidateFlashTarget(d) \/ EndFlash(d)
      PROVE  [Stick!Next]_(Stick!vars)
  BY <1>1, <1>4 DEF ValidateFlashTarget, EndFlash
<1>5. ASSUME NEW d \in Sticks, WriteImage(d) PROVE [Stick!Next]_(Stick!vars)
  <2>1. Stick!Erase(d)
    BY <1>5, BusySame DEF WriteImage, Stick!Erase
  <2> QED BY <2>1 DEF Stick!Next
<1>6. ASSUME NEW p \in Procs, Command(p) PROVE [Stick!Next]_(Stick!vars)
  BY <1>6, QuietIsStick, EarlyIsStick, InnerIsStick, CloseIsStick DEF Command
<1> QED BY <1>2, <1>3, <1>4, <1>5, <1>6, QuietIsStick, EndIsStick DEF Next

\* StickKept, for any number of runs and sticks: `tails persist` implements PersistentStick,
\* so that a stick is reported only when it is complete, unmounted and locked
\* (create_persistent_storage), and nothing but a flash touches it afterwards; but for a
\* stick that was flashed under a run, which validate_flash_target does not refuse.
THEOREM SticksArePersistent == Spec => StickKept
<1>1. Init => Stick!Init
  <2> SUFFICES ASSUME Init PROVE Stick!Init
    OBVIOUS
  <2>1. Busy = {}
    BY DEF Init, Idle, Busy, Untouched
  <2> QED
    BY <2>1 DEF Init, Stick!Init
<1>2. PInv /\ PInv' /\ [Next]_vars => [Stick!Next]_(Stick!vars)
  BY StepIsStick
<1> QED
  BY <1>1, <1>2, Invariant, PTL DEF Spec, StickKept, Stick!Spec
=============================================================================
