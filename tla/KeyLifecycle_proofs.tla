------------------------ MODULE KeyLifecycle_proofs ------------------------
(***************************************************************************)
(* Theorems about KeyLifecycle: types for every use of kdub, custody of    *)
(* the secrets for the careful one.                                        *)
(***************************************************************************)
EXTENDS KeyLifecycle, TLAPS

\* The constants of the model have their types.
LEMMA ConstantTypes ==
  /\ NoKey \in Keys
  /\ Absent \in KeyFiles /\ Torn \in KeyFiles /\ Placeholder \in KeyFiles
  /\ Idle \in Processes
<1>1. NoKey \in Keys
  BY RenewAssumption DEF NoKey, Keys
<1>2. Absent \in KeyFiles /\ Torn \in KeyFiles /\ Placeholder \in KeyFiles
  BY <1>1 DEF Absent, Torn, Placeholder, KeyFiles
<1>3. Idle \in Processes
  BY <1>1 DEF Idle, Processes, Commands, Steps, BackupFiles, Slots
<1> QED
  BY <1>1, <1>2, <1>3

\* A key can be saved as it is, and as a stub or public key.
LEMMA KeyTypes ==
  ASSUME NEW k \in Keys
  PROVE  Ok(k) \in KeyFiles /\ Public(k) \in Keys
BY DEF Ok, KeyFiles, Public, Keys

\* Where a file that is filled ends up.
LEMMA FilledTypes ==
  ASSUME NEW f, NEW new, NEW torn, NEW result \in Filled(f, new, torn)
  PROVE  result = new \/ result = torn
BY DEF Filled

\* The first key, and the stores it may have been copied from.
LEMMA InitTypes == Init => TypeOK
<1> SUFFICES ASSUME Init PROVE TypeOK
  OBVIOUS
<1>1. key \in KeyFiles /\ meta \in MetaFiles /\ proc \in [Procs -> Processes]
  BY ConstantTypes DEF Init, MetaFiles, NoMeta
<1>2. card \in [Slots -> 0..MaxGen] /\ dir \in BOOLEAN
  <2>1. 0 \in 0..MaxGen
    BY GenAssumption
  <2>2. card \in [Slots -> 0..MaxGen]
    BY <2>1 DEF Init, EmptyCard
  <2> QED
    BY <2>2 DEF Init
<1>3. made \in 0..MaxGen /\ secured \in SUBSET Gens
  BY GenAssumption DEF Init, Gens
<1>4. backup \in [BackupFiles -> KeyFiles]
  <2>1. FirstKey \in Keys
    BY GenAssumption, RenewAssumption DEF FirstKey, Keys, Gens
  <2>2. /\ Ok(FirstKey) \in KeyFiles /\ Ok(Public(FirstKey)) \in KeyFiles
        /\ Ok(NoKey) \in KeyFiles
    BY <2>1, KeyTypes, ConstantTypes
  <2>3. FullBackup(FirstKey) \in [BackupFiles -> KeyFiles]
    BY <2>2 DEF FullBackup, BackupFiles
  <2> QED
    BY <2>3, ConstantTypes DEF Init
<1> QED
  BY <1>1, <1>2, <1>3, <1>4 DEF TypeOK

\* Moving a process along keeps its type.
LEMMA ProcessTypes ==
  ASSUME proc \in [Procs -> Processes], NEW p \in Procs
  PROVE  /\ Open(p) => proc' \in [Procs -> Processes]
         /\ \A step \in Steps : Goto(p, step) => proc' \in [Procs -> Processes]
         /\ Finish(p) => proc' \in [Procs -> Processes]
         /\ \A cmd \in Commands, step \in Steps, k \in Keys :
              Start(p, cmd, step, k) => proc' \in [Procs -> Processes]
<1>1. Open(p) => proc' \in [Procs -> Processes]
  <2> DEFINE q == [proc[p] EXCEPT !.open = TRUE]
  <2>1. q \in Processes
    BY DEF Processes
  <2>2. Open(p) => proc' = [proc EXCEPT ![p] = q]
    BY DEF Open
  <2> HIDE DEF q
  <2> QED BY <2>1, <2>2
<1>2. ASSUME NEW step \in Steps, Goto(p, step) PROVE proc' \in [Procs -> Processes]
  <2> DEFINE q == [proc[p] EXCEPT !.step = step, !.open = FALSE]
  <2>1. q \in Processes
    BY DEF Processes
  <2>2. proc' = [proc EXCEPT ![p] = q]
    BY <1>2 DEF Goto
  <2> HIDE DEF q
  <2> QED BY <2>1, <2>2
<1>3. Finish(p) => proc' \in [Procs -> Processes]
  BY ConstantTypes DEF Finish
<1>4. ASSUME NEW cmd \in Commands, NEW step \in Steps, NEW k \in Keys,
             Start(p, cmd, step, k)
      PROVE  proc' \in [Procs -> Processes]
  <2>1. [Idle EXCEPT !.cmd = cmd, !.step = step, !.key = k] \in Processes
    BY ConstantTypes DEF Processes
  <2> QED
    BY <1>4, <2>1 DEF Start
<1> QED
  BY <1>1, <1>2, <1>3, <1>4

\* Loading a key from either store and changing it for renewal or rotation yields a
\* key again.
LEMMA CommandTypes ==
  ASSUME TypeOK, NEW p \in Procs, Command(p)
  PROVE  TypeOK'
<1> USE DEF TypeOK, files
<1>0. key.key \in Keys /\ backup["certify"].key \in Keys
  BY DEF KeyFiles, BackupFiles
<1>s. {"key", "meta", "mkdir", "confirm"} \subseteq Steps
  BY DEF Steps
<1>1. CASE StartCreate(p)
  <2>1. FirstKey \in Keys /\ made' \in 0..MaxGen
    BY <1>1, GenAssumption, RenewAssumption DEF StartCreate, FirstKey, Keys, Gens
  <2> QED
    BY <1>1, <1>s, <2>1, ProcessTypes DEF StartCreate, Commands
<1>2. CASE StartBackup(p)
  BY <1>2, <1>0, <1>s, ProcessTypes DEF StartBackup, Commands
<1>3. CASE StartRestore(p)
  BY <1>3, <1>0, <1>s, ProcessTypes DEF StartRestore, Commands
<1>4. CASE StartRenew(p)
  <2>1. [key.key EXCEPT !.renewals = @ + 1] \in Keys
    BY <1>4, <1>0, RenewAssumption DEF Renewed, StartRenew, Keys
  <2> QED
    BY <1>4, <1>s, <2>1, ProcessTypes DEF Renewed, StartRenew, Commands
<1>5. CASE StartRotate(p)
  <2>1. made' \in 0..MaxGen /\ made + 1 \in Gens
    BY <1>5, GenAssumption DEF Rotated, StartRotate, Gens
  <2>2. [key.key EXCEPT !.gens = @ \cup {made + 1}] \in Keys
    BY <1>0, <2>1 DEF Keys
  <2> QED
    BY <1>5, <1>s, <2>1, <2>2, ProcessTypes DEF Rotated, StartRotate, Commands
<1>6. CASE StartProvision(p)
  BY <1>6, <1>0, <1>s, ProcessTypes DEF StartProvision, Commands
<1> QED
  BY <1>1, <1>2, <1>3, <1>4, <1>5, <1>6 DEF Command

\* No step of a running command breaks a type: neither the card's slots nor the
\* generations still to import leave their ranges.
LEMMA StepTypes ==
  ASSUME TypeOK, NEW p \in Procs, Step(p)
  PROVE  TypeOK'
<1> USE DEF TypeOK, files
<1>0. proc[p] \in Processes /\ proc[p].key \in Keys
  BY DEF Processes
<1>s. BackupFiles \cup {"certify", "check", "import", "key", "load", "meta"} \subseteq Steps
  BY DEF Steps, BackupFiles
<1>1. CASE MakeBackupDir(p)
  BY <1>1, <1>s, ProcessTypes DEF MakeBackupDir
<1>2. ASSUME NEW f \in BackupFiles, TruncBackup(p, f) PROVE TypeOK'
  BY <1>2, ProcessTypes, ConstantTypes DEF TruncBackup
<1>3. ASSUME NEW f \in BackupFiles, FillBackup(p, f) PROVE TypeOK'
  <2>1. After(f) \in Steps
    BY <1>s DEF After, BackupFiles
  <2>2. BackupContents(f, proc[p].key) \subseteq KeyFiles
    <3>1. /\ Ok(proc[p].key) \in KeyFiles /\ Ok(Public(proc[p].key)) \in KeyFiles
          /\ Ok(NoKey) \in KeyFiles /\ Placeholder \in KeyFiles
      BY <1>0, KeyTypes, ConstantTypes
    <3> QED
      BY <3>1 DEF BackupContents, BackupFiles
  <2>3. PICK new \in BackupContents(f, proc[p].key) :
          \E result \in Filled(backup[f], new, Torn) :
            backup' = [backup EXCEPT ![f] = result]
    BY <1>3 DEF FillBackup
  <2>4. backup' \in [BackupFiles -> KeyFiles]
    BY <2>2, <2>3, FilledTypes, ConstantTypes
  <2> QED
    BY <1>3, <2>1, <2>4, ProcessTypes DEF FillBackup
<1>4. CASE Confirm(p)
  <2>1. proc' \in [Procs -> Processes]
    BY <1>4, <1>0, <1>s DEF Confirm, Processes, Keys
  <2> QED
    BY <1>4, <2>1 DEF Confirm
<1>5. CASE Import(p)
  <2>1. PICK g \in proc[p].rest :
          /\ card' = [card EXCEPT ![proc[p].slot] = g]
          /\ proc' = [proc EXCEPT ![p].slot = IF @ = 3 THEN 1 ELSE @ + 1,
                                  ![p].rest = IF proc[p].slot = 3 THEN @ \ {g} ELSE @]
    BY <1>5 DEF Import, NextSubkey
  <2>2. g \in 0..MaxGen
    BY <1>0, GenAssumption DEF Processes, Gens
  <2>3. proc' \in [Procs -> Processes]
    <3> DEFINE s == IF proc[p].slot = 3 THEN 1 ELSE proc[p].slot + 1
               r == IF proc[p].slot = 3 THEN proc[p].rest \ {g} ELSE proc[p].rest
    <3>1. s \in Slots /\ r \in SUBSET Gens
      BY <1>0 DEF Processes, Slots
    <3>2. proc' = [proc EXCEPT ![p].slot = s, ![p].rest = r]
      BY <2>1
    <3> HIDE DEF s, r
    <3> DEFINE q == [proc[p] EXCEPT !.slot = s, !.rest = r]
    <3>3. q \in Processes
      BY <1>0, <3>1 DEF Processes
    <3>4. proc' = [proc EXCEPT ![p] = q]
      BY <3>2
    <3> HIDE DEF q
    <3> QED
      BY <3>3, <3>4
  <2> QED
    BY <1>5, <2>1, <2>2, <2>3 DEF Import
<1>6. CASE ImportsDone(p)
  BY <1>6, <1>s, ProcessTypes DEF ImportsDone
<1>7. CASE CheckSlots(p)
  <2>1. proc' \in [Procs -> Processes]
    BY <1>7, <1>0, <1>s, KeyTypes DEF CheckSlots, Processes
  <2> QED
    BY <1>7, <2>1 DEF CheckSlots
<1>8. CASE TruncKey(p)
  BY <1>8, ProcessTypes, ConstantTypes DEF TruncKey
<1>9. CASE FillKey(p)
  <2>1. key' \in KeyFiles
    BY <1>9, <1>0, FilledTypes, KeyTypes, ConstantTypes DEF FillKey
  <2> QED
    BY <1>9, <1>s, <2>1, ProcessTypes DEF FillKey
<1>10. CASE LoadMeta(p)
  <2>1. PICK stamps \in SUBSET Stamps :
          proc' = [proc EXCEPT ![p].step = "meta", ![p].stamps = stamps]
    <3>1. StampOf(proc[p].cmd) \in SUBSET Stamps /\ {"backed_up"} \in SUBSET Stamps
      BY DEF StampOf, Stamps
    <3>2. meta.stamps \in SUBSET Stamps
      BY DEF MetaFiles
    <3> QED
      BY <1>10, <3>1, <3>2 DEF LoadMeta
  <2> DEFINE q == [proc[p] EXCEPT !.step = "meta", !.stamps = stamps]
  <2>2. q \in Processes
    BY <1>0 DEF Processes, Steps
  <2>3. proc' = [proc EXCEPT ![p] = q]
    BY <2>1
  <2> HIDE DEF q
  <2>4. proc' \in [Procs -> Processes]
    BY <2>2, <2>3
  <2> QED
    BY <1>10, <2>4 DEF LoadMeta
<1>11. CASE TruncMeta(p)
  BY <1>11, ProcessTypes DEF TruncMeta, TornMeta, MetaFiles
<1>12. CASE FillMeta(p)
  <2>1. meta' \in MetaFiles
    BY <1>12, <1>0 DEF FillMeta, Metadata, TornMeta, MetaFiles, Processes
  <2>2. secured' \in SUBSET Gens
    BY <1>12, <1>0 DEF FillMeta, Keys
  <2> QED
    BY <1>12, <1>s, <2>1, <2>2, ProcessTypes DEF FillMeta
<1> QED
  BY <1>1, <1>2, <1>3, <1>4, <1>5, <1>6, <1>7, <1>8, <1>9, <1>10, <1>11, <1>12 DEF Step

\* TypeOK is inductive for commands in any order and at the same time.
LEMMA NextTypes == TypeOK /\ [Next]_vars => TypeOK'
<1> SUFFICES ASSUME TypeOK, [Next]_vars PROVE TypeOK'
  OBVIOUS
<1>1. CASE CardReset
  <2>1. card' \in [Slots -> 0..MaxGen]
    BY <1>1, GenAssumption DEF CardReset, EmptyCard
  <2> QED
    BY <1>1, <2>1 DEF CardReset, TypeOK, files
<1>2. ASSUME NEW p \in Procs, Command(p) PROVE TypeOK'
  BY <1>2, CommandTypes
<1>3. ASSUME NEW p \in Procs, Step(p) PROVE TypeOK'
  BY <1>3, StepTypes
<1>4. ASSUME NEW p \in Procs, Abort(p) PROVE TypeOK'
  BY <1>4, ProcessTypes DEF Abort, TypeOK, files
<1>5. CASE UNCHANGED vars
  BY <1>5 DEF vars, TypeOK
<1> QED
  BY <1>1, <1>2, <1>3, <1>4, <1>5 DEF Next

\* Whatever commands run, overlap and die, every file, the card and every
\* process hold values of their types.
THEOREM TypeCorrect == Spec => []TypeOK
BY InitTypes, NextTypes, PTL DEF Spec

-----------------------------------------------------------------------------
(* The backup the metadata speaks of, for commands in any order.           *)

\* A step of p keeps BInv when it takes no backup away and p's own record,
\* and the metadata, still know of one.
LEMMA BackupKept ==
  ASSUME BInv, NEW p \in Procs, \A q \in Procs : q # p => proc'[q] = proc[q],
         dir => dir', HasBackup => HasBackup',
         "backed_up" \in meta'.stamps => HasBackup', KnowsBackup(p)'
  PROVE  BInv'
<1>1. ASSUME NEW q \in Procs, q # p PROVE KnowsBackup(q)'
  BY <1>1 DEF BInv, KnowsBackup, Running
<1> QED
  BY <1>1 DEF BInv

\* A step past certify-key.asc that leaves the backup alone keeps BInv when p
\* holds no stamp it may not.
LEMMA BackupUntouched ==
  ASSUME BInv, NEW p \in Procs, \A q \in Procs : q # p => proc'[q] = proc[q],
         UNCHANGED <<dir, backup>>,
         "backed_up" \in meta'.stamps => HasBackup,
         proc'[p].cmd = proc[p].cmd \/ proc'[p].cmd = "none",
         proc'[p].cmd = "backup" => proc[p].step \notin {"mkdir", "certify"},
         "backed_up" \in proc'[p].stamps => HasBackup
  PROVE  BInv'
<1>1. HasBackup' = HasBackup /\ dir' = dir
  BY DEF HasBackup
<1>2. KnowsBackup(p)'
  BY <1>1 DEF BInv, KnowsBackup, Running, HasBackup
<1> QED
  BY <1>1, <1>2, BackupKept

\* A new data directory has no backup and no metadata; neither has metadata the
\* directory a backup was copied into.
LEMMA InitBInv == Init => BInv
BY DEF Init, BInv, KnowsBackup, Running, Idle, NoMeta

\* The command that starts carries no stamp; a restore has seen certify-key.asc.
LEMMA CommandKeepsBInv ==
  ASSUME TypeOK, BInv, NEW p \in Procs, Command(p)
  PROVE  BInv'
<1>0. Idle.stamps = {}
  BY DEF Idle
<1>1. ASSUME NEW cmd \in Commands, NEW step \in Steps, NEW k, Start(p, cmd, step, k),
             UNCHANGED files, cmd = "restore" => HasBackup, cmd = "backup" => step = "mkdir"
      PROVE  BInv'
  <2>1. proc' = [proc EXCEPT ![p] = [Idle EXCEPT !.cmd = cmd, !.step = step, !.key = k]]
    BY <1>1 DEF Start
  <2>2. /\ proc'[p].stamps = {} /\ proc'[p].cmd = cmd /\ proc'[p].step = step
        /\ \A q \in Procs : q # p => proc'[q] = proc[q]
    BY <2>1 DEF TypeOK, Idle
  <2>3. HasBackup' = HasBackup /\ dir' = dir /\ meta' = meta
    BY <1>1 DEF HasBackup, files
  <2>4. KnowsBackup(p)'
    BY <1>1, <2>2, <2>3 DEF KnowsBackup, Running
  <2> QED
    BY <2>2, <2>3, <2>4, BackupKept DEF BInv
<1>2. CASE StartRestore(p)
  BY <1>1, <1>2 DEF StartRestore, HasBackup, Commands, Steps, files
<1>3. CASE StartBackup(p)
  BY <1>1, <1>3 DEF StartBackup, Commands, Steps, files
<1>4. CASE StartCreate(p) \/ StartRenew(p) \/ StartRotate(p) \/ StartProvision(p)
  BY <1>1, <1>4
     DEF StartCreate, StartRenew, StartRotate, StartProvision, Commands, Steps, files
<1> QED
  BY <1>2, <1>3, <1>4 DEF Command

\* Nobody adds the stamp to what it saves before certify-key.asc is there.
LEMMA StepKeepsBInv ==
  ASSUME TypeOK, BInv, NEW p \in Procs, Step(p) \/ Abort(p)
  PROVE  BInv'
<1> USE DEF TypeOK, files
<1>0. KnowsBackup(p) /\ ("backed_up" \in meta.stamps => HasBackup)
  BY DEF BInv
<1>1. CASE MakeBackupDir(p)
  BY <1>0, <1>1, BackupKept DEF MakeBackupDir, At, Goto, HasBackup, KnowsBackup, Running
<1>2. ASSUME NEW f \in BackupFiles, TruncBackup(p, f) PROVE BInv'
  <2>1. backup'["certify"] \in {backup["certify"], Torn} /\ dir' = dir
    BY <1>2 DEF TruncBackup, BackupFiles
  <2>2. HasBackup => HasBackup'
    BY <2>1 DEF HasBackup, Torn
  <2> QED
    BY <1>0, <1>2, <2>2, BackupKept DEF TruncBackup, Open, KnowsBackup, Running
<1>3. ASSUME NEW f \in BackupFiles, FillBackup(p, f) PROVE BInv'
  <2>1. PICK new \in BackupContents(f, proc[p].key) :
          \E result \in Filled(backup[f], new, Torn) :
            backup' = [backup EXCEPT ![f] = result]
    BY <1>3 DEF FillBackup
  <2>2. new.st # "absent" /\ Torn.st # "absent"
    BY DEF BackupContents, BackupFiles, Ok, Placeholder, Torn
  <2>3. backup'[f].st # "absent"
    BY <2>1, <2>2, FilledTypes
  <2>4. HasBackup => HasBackup'
    BY <1>3, <2>1, <2>3 DEF FillBackup, HasBackup
  <2>5. CASE f = "certify"
    <3>1. Running(p, {"backup"}) => HasBackup'
      BY <1>0, <1>3, <2>3, <2>5 DEF FillBackup, Writing, HasBackup, KnowsBackup
    <3> QED
      BY <1>0, <1>3, <2>4, <3>1, BackupKept DEF FillBackup, Goto, HasBackup, KnowsBackup, Running
  <2>6. CASE f # "certify"
    <3>1. After(f) # "mkdir" /\ f # "mkdir"
      BY DEF After, BackupFiles
    <3>2. Running(p, {"backup"}) => HasBackup
      BY <1>0, <1>3, <2>6, <3>1 DEF FillBackup, Writing, KnowsBackup
    <3> QED
      BY <1>0, <1>3, <2>4, <3>2, BackupKept DEF FillBackup, Goto, HasBackup, KnowsBackup, Running
  <2> QED
    BY <2>5, <2>6
<1>s. "backed_up" \in proc[p].stamps => HasBackup
  BY <1>0 DEF KnowsBackup
<1>4. CASE Confirm(p) \/ ImportsDone(p) \/ CheckSlots(p)
  <2>1. /\ proc'[p].cmd = proc[p].cmd /\ proc'[p].stamps = proc[p].stamps
        /\ \A q \in Procs : q # p => proc'[q] = proc[q]
    BY <1>4 DEF Confirm, ImportsDone, CheckSlots, Goto, Processes
  <2>2. /\ UNCHANGED <<dir, backup, meta>>
        /\ proc[p].step \notin {"mkdir", "certify"}
    BY <1>4 DEF Confirm, ImportsDone, CheckSlots, At
  <2> QED
    BY <1>0, <1>s, <2>1, <2>2, BackupUntouched
<1>5. CASE Import(p)
  <2>1. PICK g \in Gens :
          proc' = [proc EXCEPT ![p].slot = IF @ = 3 THEN 1 ELSE @ + 1,
                               ![p].rest = IF proc[p].slot = 3 THEN @ \ {g} ELSE @]
    BY <1>5 DEF Import
  <2>2. /\ proc'[p].cmd = proc[p].cmd /\ proc'[p].step = proc[p].step
        /\ proc'[p].stamps = proc[p].stamps /\ \A q \in Procs : q # p => proc'[q] = proc[q]
    BY <2>1 DEF Processes
  <2> QED
    BY <1>0, <1>5, <2>2, BackupKept DEF Import, HasBackup, KnowsBackup, Running
<1>6. CASE TruncKey(p) \/ TruncMeta(p)
  <2>1. /\ proc'[p].cmd = proc[p].cmd /\ proc'[p].stamps = proc[p].stamps
        /\ \A q \in Procs : q # p => proc'[q] = proc[q]
    BY <1>6 DEF TruncKey, TruncMeta, Open, Processes
  <2>2. /\ UNCHANGED <<dir, backup>> /\ meta' \in {meta, TornMeta}
        /\ proc[p].step \notin {"mkdir", "certify"}
    BY <1>6 DEF TruncKey, TruncMeta, At
  <2>3. "backed_up" \in meta'.stamps => HasBackup
    BY <1>0, <2>2 DEF TornMeta
  <2> QED
    BY <1>s, <2>1, <2>2, <2>3, BackupUntouched
<1>f. ASSUME Finish(p) \/ Goto(p, "key") \/ Goto(p, "load")
      PROVE  /\ proc'[p].cmd = proc[p].cmd \/ proc'[p].cmd = "none"
             /\ "backed_up" \in proc'[p].stamps => HasBackup
             /\ \A q \in Procs : q # p => proc'[q] = proc[q]
  BY <1>s, <1>f DEF Finish, Goto, Idle, Processes
<1>7. CASE FillKey(p)
  <2>1. Finish(p) \/ Goto(p, "load")
    BY <1>7 DEF FillKey
  <2>2. /\ UNCHANGED <<dir, backup, meta>>
        /\ proc[p].step \notin {"mkdir", "certify"}
    BY <1>7 DEF FillKey, Writing
  <2> QED
    BY <1>0, <1>f, <2>1, <2>2, BackupUntouched
<1>8. CASE LoadMeta(p)
  <2>1. /\ proc'[p].cmd = proc[p].cmd
        /\ \A q \in Procs : q # p => proc'[q] = proc[q]
    BY <1>8 DEF LoadMeta, Processes
  <2>2. /\ UNCHANGED <<dir, backup, meta>>
        /\ proc[p].step \notin {"mkdir", "certify"}
    BY <1>8 DEF LoadMeta, At
  <2>3. "backed_up" \in proc'[p].stamps => HasBackup
    BY <1>0, <1>8 DEF LoadMeta, At, StampOf, KnowsBackup, Running, Processes
  <2> QED
    BY <1>0, <2>1, <2>2, <2>3, BackupUntouched
<1>9. CASE FillMeta(p)
  <2>1. "backed_up" \in meta'.stamps => HasBackup
    BY <1>9, <1>s DEF FillMeta, Metadata, TornMeta
  <2>2. Finish(p) \/ Goto(p, "key")
    BY <1>9 DEF FillMeta
  <2>3. UNCHANGED <<dir, backup>> /\ proc[p].step \notin {"mkdir", "certify"}
    BY <1>9 DEF FillMeta, Writing
  <2> QED
    BY <1>f, <2>1, <2>2, <2>3, BackupUntouched
<1>10. CASE Abort(p)
  BY <1>0, <1>10, BackupKept DEF Abort, Finish, Idle, HasBackup, KnowsBackup, Running
<1> QED
  BY <1>1, <1>2, <1>3, <1>4, <1>5, <1>6, <1>7, <1>8, <1>9, <1>10 DEF Step

\* BInv is inductive, given the types.
LEMMA NextBInv == TypeOK /\ BInv /\ [Next]_vars => BInv'
<1> SUFFICES ASSUME TypeOK, BInv, [Next]_vars PROVE BInv'
  OBVIOUS
<1>1. CASE CardReset \/ UNCHANGED vars
  BY <1>1 DEF CardReset, files, vars, BInv, HasBackup, KnowsBackup, Running
<1> QED
  BY <1>1, CommandKeepsBInv, StepKeepsBInv DEF Next

\* Whatever commands run, overlap and die: metadata that says the key is backed
\* up comes after certify-key.asc was created, and the file is never removed.
THEOREM BackupIsThere == Spec => []BackedUpMeansBackup
<1>1. Init => TypeOK /\ BInv
  BY InitTypes, InitBInv
<1>2. TypeOK /\ BInv /\ [Next]_vars => (TypeOK /\ BInv)'
  BY NextTypes, NextBInv
<1>3. BInv => BackedUpMeansBackup
  BY DEF BInv, BackedUpMeansBackup, HasBackup
<1> QED
  BY <1>1, <1>2, <1>3, PTL DEF Spec

-----------------------------------------------------------------------------
(* The careful owner.                                                      *)

\* The steps of each command, written out once for the proofs below.
LEMMA StepsOfCommands ==
  /\ StepsOf("none") = {"idle"}
  /\ StepsOf("create") = {"meta", "key"}
  /\ StepsOf("backup") = BackupFiles \cup {"mkdir", "load", "meta"}
  /\ StepsOf("restore") = {"key", "load", "meta"}
  /\ StepsOf("renew") = {"key", "load", "meta"}
  /\ StepsOf("rotate") = {"key", "load", "meta"}
  /\ StepsOf("provision") = {"confirm", "import", "check", "key", "load", "meta"}
BY DEF StepsOf

\* What p's record becomes when it takes a step.
LEMMA NewRecord ==
  ASSUME proc \in [Procs -> Processes], NEW p \in Procs
  PROVE  /\ Open(p) => proc' = [proc EXCEPT ![p] = [proc[p] EXCEPT !.open = TRUE]]
         /\ \A step : Goto(p, step) =>
              proc' = [proc EXCEPT ![p] = [proc[p] EXCEPT !.step = step, !.open = FALSE]]
BY DEF Open, Goto

\* A process that moves within its command, or ends, disturbs no other process.
LEMMA Moved ==
  ASSUME proc \in [Procs -> Processes], Shape, NEW p \in Procs, NEW r \in Processes,
         proc' = [proc EXCEPT ![p] = r], proc[p].cmd # "none",
         r = Idle \/ (r.cmd = proc[p].cmd /\ r.step \in StepsOf(r.cmd))
  PROVE  /\ Shape'
         /\ \A q \in Procs : q # p => proc'[q] = proc[q]
         /\ proc[p].cmd # "none" /\ proc'[p].cmd \in {proc[p].cmd, "none"}
<1>1. Idle.cmd = "none" /\ Idle.step = "idle"
  BY DEF Idle
<1>2. r.step \in StepsOf(r.cmd) /\ (r.cmd = "none" => r = Idle)
  BY <1>1, StepsOfCommands
<1> QED
  BY <1>1, <1>2 DEF Shape

\* A process that is at a step other than "idle" runs one of these commands.
LEMMA AtStep ==
  ASSUME TypeOK, Shape, NEW p \in Procs
  PROVE  LET c == proc[p].cmd
             s == proc[p].step IN
         /\ s # "idle" => c # "none"
         /\ s \in BackupFiles \cup {"mkdir"} => c = "backup"
         /\ s \in {"confirm", "import", "check"} => c = "provision"
         /\ s = "key" => c \in {"create", "restore", "renew", "rotate", "provision"}
         /\ s = "load" => c \in {"backup", "restore", "renew", "rotate", "provision"}
         /\ s = "meta" => c \in {"create", "backup", "restore", "renew", "rotate", "provision"}
<1>1. proc[p].step \in StepsOf(proc[p].cmd) /\ proc[p].cmd \in Commands \cup {"none"}
  BY DEF TypeOK, Processes, Shape
<1> QED
  BY <1>1, StepsOfCommands DEF Commands, BackupFiles

\* Every step of p moves p from one step of its command to another, or ends it.
LEMMA StepShape ==
  ASSUME TypeOK, Shape, NEW p \in Procs, Step(p) \/ Abort(p)
  PROVE  /\ Shape'
         /\ \A q \in Procs : q # p => proc'[q] = proc[q]
         /\ proc[p].cmd # "none" /\ proc'[p].cmd \in {proc[p].cmd, "none"}
<1> DEFINE c == proc[p].cmd
           Good == /\ Shape'
                   /\ \A q \in Procs : q # p => proc'[q] = proc[q]
                   /\ proc[p].cmd # "none" /\ proc'[p].cmd \in {proc[p].cmd, "none"}
           To(s) == [proc[p] EXCEPT !.step = s, !.open = FALSE]
<1>0. proc \in [Procs -> Processes] /\ proc[p] \in Processes /\ Idle \in Processes
  BY ConstantTypes DEF TypeOK
<1>g. ASSUME NEW s \in Steps, Goto(p, s), c # "none", s \in StepsOf(c) PROVE Good
  <2>1. To(s) \in Processes /\ To(s).cmd = c /\ To(s).step = s
    BY <1>0 DEF Processes
  <2>2. proc' = [proc EXCEPT ![p] = To(s)]
    BY <1>0, <1>g, NewRecord
  <2> HIDE DEF To
  <2> QED
    BY <1>0, <1>g, <2>1, <2>2, Moved
<1>o. ASSUME Open(p), c # "none" PROVE Good
  <2> DEFINE r == [proc[p] EXCEPT !.open = TRUE]
  <2>1. r \in Processes /\ r.cmd = c /\ r.step = proc[p].step
    BY <1>0 DEF Processes
  <2>2. proc' = [proc EXCEPT ![p] = r]
    BY <1>0, <1>o, NewRecord
  <2>3. proc[p].step \in StepsOf(c)
    BY DEF Shape
  <2> HIDE DEF r
  <2> QED
    BY <1>0, <1>o, <2>1, <2>2, <2>3, Moved
<1>f. ASSUME Finish(p), c # "none" PROVE Good
  BY <1>0, <1>f, Moved DEF Finish
<1>1. CASE MakeBackupDir(p)
  BY <1>1, <1>g, AtStep, StepsOfCommands DEF MakeBackupDir, At, BackupFiles, Steps
<1>2. ASSUME NEW f \in BackupFiles, TruncBackup(p, f) PROVE Good
  BY <1>2, <1>o, AtStep DEF TruncBackup, At, BackupFiles
<1>3. ASSUME NEW f \in BackupFiles, FillBackup(p, f) PROVE Good
  <2>1. c = "backup" /\ Goto(p, After(f))
    BY <1>3, AtStep DEF FillBackup, Writing
  <2>2. After(f) \in BackupFiles \cup {"load"}
    BY DEF After, BackupFiles
  <2>3. After(f) \in Steps /\ After(f) \in StepsOf(c)
    BY <2>1, <2>2, StepsOfCommands DEF Steps
  <2> QED
    BY <1>g, <2>1, <2>3
<1>4. CASE Confirm(p)
  <2> DEFINE r == [proc[p] EXCEPT !.step = "import", !.rest = proc[p].key.gens]
  <2>1. proc' = [proc EXCEPT ![p] = r] /\ r \in Processes /\ r.cmd = c /\ r.step = "import"
    BY <1>4, <1>0 DEF Confirm, Processes, Keys, Steps
  <2>2. c = "provision"
    BY <1>4, AtStep DEF Confirm, At
  <2> HIDE DEF r
  <2> QED
    BY <1>0, <2>1, <2>2, Moved, StepsOfCommands
<1>5. CASE Import(p)
  <2>1. PICK g \in proc[p].rest :
          proc' = [proc EXCEPT ![p].slot = IF @ = 3 THEN 1 ELSE @ + 1,
                               ![p].rest = IF proc[p].slot = 3 THEN @ \ {g} ELSE @]
    BY <1>5 DEF Import, NextSubkey
  <2> DEFINE s == IF proc[p].slot = 3 THEN 1 ELSE proc[p].slot + 1
             t == IF proc[p].slot = 3 THEN proc[p].rest \ {g} ELSE proc[p].rest
             r == [proc[p] EXCEPT !.slot = s, !.rest = t]
  <2>2. r.cmd = c /\ r.step = proc[p].step
    BY <1>0 DEF Processes
  <2>5. proc' = [proc EXCEPT ![p] = r]
    BY <1>0, <2>1
  <2>3. r \in Processes
    BY <1>0, <1>5, <2>5, StepTypes DEF Step, TypeOK
  <2>4. c = "provision" /\ proc[p].step \in StepsOf(c)
    BY <1>5, AtStep DEF Import, At, Shape
  <2> HIDE DEF r
  <2> QED
    BY <1>0, <2>2, <2>3, <2>4, <2>5, Moved
<1>6. CASE ImportsDone(p)
  BY <1>6, <1>g, AtStep, StepsOfCommands DEF ImportsDone, At, Steps
<1>7. CASE CheckSlots(p)
  <2> DEFINE r == [proc[p] EXCEPT !.step = "key", !.key = Public(proc[p].key)]
  <2>1. proc' = [proc EXCEPT ![p] = r] /\ r.cmd = c /\ r.step = "key"
    BY <1>7, <1>0 DEF CheckSlots, Processes
  <2>2. r \in Processes
    BY <1>0, KeyTypes DEF Processes, Steps
  <2>3. c = "provision"
    BY <1>7, AtStep DEF CheckSlots, At
  <2> HIDE DEF r
  <2> QED
    BY <1>0, <2>1, <2>2, <2>3, Moved, StepsOfCommands
<1>8. CASE TruncKey(p)
  BY <1>8, <1>o, AtStep DEF TruncKey, At
<1>9. CASE FillKey(p)
  BY <1>9, <1>g, <1>f, AtStep, StepsOfCommands DEF FillKey, Writing, Steps
<1>10. CASE LoadMeta(p)
  <2>1. PICK s \in SUBSET Stamps :
          proc' = [proc EXCEPT ![p].step = "meta", ![p].stamps = s]
    <3>1. StampOf(c) \subseteq Stamps
      BY DEF StampOf, Stamps
    <3>2. meta.stamps \cup StampOf(c) \in SUBSET Stamps /\ {"backed_up"} \in SUBSET Stamps
      BY <3>1 DEF TypeOK, MetaFiles, Stamps
    <3> QED
      BY <1>10, <3>2 DEF LoadMeta
  <2> DEFINE r == [proc[p] EXCEPT !.step = "meta", !.stamps = s]
  <2>2. proc' = [proc EXCEPT ![p] = r] /\ r.cmd = c /\ r.step = "meta" /\ r \in Processes
    BY <1>0, <2>1 DEF Processes, Steps
  <2>3. c \in {"backup", "restore", "renew", "rotate", "provision"}
    BY <1>10, AtStep DEF LoadMeta, At
  <2> HIDE DEF r
  <2> QED
    BY <1>0, <2>2, <2>3, Moved, StepsOfCommands
<1>11. CASE TruncMeta(p)
  BY <1>11, <1>o, AtStep DEF TruncMeta, At
<1>12. CASE FillMeta(p)
  BY <1>12, <1>g, <1>f, AtStep, StepsOfCommands DEF FillMeta, Writing, Steps
<1>13. CASE Abort(p)
  BY <1>13, <1>f DEF Abort, Shape
<1> QED
  BY <1>1, <1>2, <1>3, <1>4, <1>5, <1>6, <1>7, <1>8, <1>9, <1>10, <1>11, <1>12, <1>13 DEF Step

\* No step makes a second command run beside one that is no backup.
LEMMA StepOverlap ==
  ASSUME TypeOK, Shape, Overlap, NEW p \in Procs, Step(p) \/ Abort(p)
  PROVE  Overlap'
BY StepShape DEF Overlap, Running

\* Beside a command that is no backup nothing runs.
LEMMA OthersIdle ==
  ASSUME TypeOK, Shape, Overlap, NEW p \in Procs, Step(p) \/ Abort(p),
         proc[p].cmd # "backup"
  PROVE  \A q \in Procs : q # p => InMemory(q)'
<1> SUFFICES ASSUME NEW q \in Procs, q # p PROVE InMemory(q)'
  OBVIOUS
<1>1. proc[q].cmd = "none" /\ proc'[q] = proc[q]
  BY StepShape DEF Overlap, Running
<1> QED
  BY <1>1 DEF InMemory, Running

\* A step that leaves both stores alone and what p holds in memory.
LEMMA Quiet ==
  ASSUME TypeOK, IInv, NEW p \in Procs, Step(p) \/ Abort(p),
         UNCHANGED <<key, backup["certify"], made, secured>>,
         \/ proc'[p].cmd = "none"
         \/ /\ proc'[p].key = proc[p].key
            /\ proc[p].step \notin {"mkdir", "certify"} \/ proc'[p].step \in {"mkdir", "certify"}
            /\ proc'[p].step = "key" => proc[p].step = "key" \/ proc[p].cmd = "create"
  PROVE  Stores' /\ \A q \in Procs : InMemory(q)'
<1>1. Stores'
  BY DEF IInv, Stores, HoldsSecret
<1>2. ASSUME NEW q \in Procs, q # p PROVE InMemory(q)'
  BY <1>2, StepShape DEF IInv, InMemory, Running, HoldsSecret
<1>3. InMemory(p)'
  BY StepShape DEF IInv, InMemory, Running, HoldsSecret
<1> QED
  BY <1>1, <1>2, <1>3

\* A step on a backup file by a backup whose key is the one in the key file.
LEMMA BackupFileStep ==
  ASSUME TypeOK, IInv, NEW p \in Procs, NEW f \in BackupFiles,
         TruncBackup(p, f) \/ FillBackup(p, f)
  PROVE  Stores' /\ \A q \in Procs : InMemory(q)'
<1> DEFINE c == backup["certify"]
<1>0. /\ Step(p) /\ UNCHANGED <<key, made, secured>>
      /\ proc[p].cmd = "backup" /\ proc[p].step = f
  BY AtStep DEF IInv, Step, TruncBackup, FillBackup, At, Writing
<1>1. HoldsSecret(key) /\ proc[p].key = key.key /\ key.key \in Keys
  BY <1>0 DEF IInv, InMemory, Running, TypeOK, KeyFiles
<1>2. made # 0 /\ secured \subseteq key.key.gens
  BY <1>1 DEF IInv, Stores, HoldsSecret
<1>3. proc'[p].cmd = "backup" /\ proc'[p].key = proc[p].key
  <2>1. proc \in [Procs -> Processes]
    BY DEF TypeOK
  <2>2. CASE TruncBackup(p, f)
    BY <1>0, <2>1, <2>2 DEF TruncBackup, Open, Processes
  <2>3. CASE FillBackup(p, f)
    BY <1>0, <2>1, <2>3 DEF FillBackup, Goto, Processes
  <2> QED
    BY <2>2, <2>3
<1>4. CASE f # "certify"
  <2>1. UNCHANGED backup["certify"]
    BY <1>4 DEF TruncBackup, FillBackup, TypeOK, BackupFiles
  <2>2. f \notin {"mkdir", "certify"} /\ proc'[p].step # "key"
    <3>1. proc'[p].step \in BackupFiles \cup {"mkdir", "load", "meta"}
      BY <1>0, <1>3, StepShape, StepsOfCommands DEF IInv, Shape
    <3> QED
      BY <1>4, <3>1 DEF BackupFiles
  <2> QED
    BY <1>0, <1>3, <2>1, <2>2, Quiet
<1>5. CASE f = "certify"
  <2>1. c' = Torn \/ c' = Ok(key.key)
    <3>1. CASE TruncBackup(p, f)
      BY <1>5, <3>1 DEF TruncBackup, TypeOK
    <3>2. CASE FillBackup(p, f)
      <4>1. BackupContents(f, proc[p].key) = {Ok(key.key)}
        BY <1>1, <1>5 DEF BackupContents
      <4> QED
        BY <1>5, <3>2, <4>1, FilledTypes DEF FillBackup, TypeOK
    <3> QED
      BY <3>1, <3>2
  <2>2. /\ c'.st = "ok" => c'.key = key.key
        /\ HoldsSecret(key)' /\ key'.key.secret
    BY <1>0, <1>1, <2>1 DEF Torn, Ok, HoldsSecret
  <2>3. Stores'
    BY <1>0, <1>1, <1>2, <2>2 DEF Stores
  <2>4. ASSUME NEW q \in Procs PROVE InMemory(q)'
    <3>1. proc'[q].cmd \in {"none", "backup"} /\ proc'[q].key = proc[q].key
      BY <1>0, <1>3, StepShape DEF IInv, Overlap, Running
    <3>2. proc'[q].cmd = "backup" => proc[q].cmd = "backup"
      BY <1>0, <1>3, StepShape DEF IInv
    <3>3. proc'[q].cmd = "backup" => proc[q].key = key.key
      BY <3>2 DEF IInv, InMemory, Running
    <3> QED
      BY <1>0, <2>2, <3>1, <3>3 DEF InMemory, Running
  <2> QED
    BY <2>3, <2>4
<1> QED
  BY <1>4, <1>5

\* The key file is written by a command that has nothing secured to lose, or
\* beside a certify-key.asc that can be read.
LEMMA KeyFileStep ==
  ASSUME TypeOK, IInv, NEW p \in Procs, TruncKey(p) \/ FillKey(p)
  PROVE  Stores' /\ \A q \in Procs : InMemory(q)'
<1> DEFINE c == backup["certify"]
           k == proc[p].key
<1>0. /\ Step(p) /\ UNCHANGED <<c, made, secured>>
      /\ proc[p].cmd \in {"create", "restore", "renew", "rotate", "provision"}
      /\ proc[p].step = "key"
  BY AtStep DEF IInv, Step, TruncKey, FillKey, At, Writing
<1>1. \/ proc[p].cmd = "create" /\ secured = {} /\ k.secret /\ made # 0
      \/ /\ proc[p].cmd # "create" /\ c.st = "ok" /\ c.key.secret /\ made # 0
         /\ secured \subseteq c.key.gens
         /\ \/ k.secret /\ secured \subseteq k.gens
            \/ ~k.secret /\ k.gens \subseteq c.key.gens
  BY <1>0 DEF IInv, InMemory, Running, Stores
<1>2. key' = Torn \/ (key' = Ok(k) /\ FillKey(p))
  BY FilledTypes DEF TruncKey, FillKey
<1>3. Stores'
  BY <1>0, <1>1, <1>2 DEF IInv, Stores, HoldsSecret, Torn, Ok
<1>4. ASSUME NEW q \in Procs, q # p PROVE InMemory(q)'
  BY <1>0, <1>4, OthersIdle DEF IInv
<1>5. InMemory(p)'
  <2>1. proc \in [Procs -> Processes]
    BY DEF TypeOK
  <2>2. CASE TruncKey(p)
    <3>1. proc'[p].cmd = proc[p].cmd /\ proc'[p].key = k /\ proc'[p].step = "key"
      BY <1>0, <2>1, <2>2 DEF TruncKey, Open, Processes
    <3> QED
      BY <1>0, <3>1 DEF IInv, InMemory, Running
  <2>3. CASE FillKey(p)
    <3>1. \/ proc'[p] = Idle
          \/ /\ proc'[p].cmd = proc[p].cmd /\ proc[p].cmd # "create"
             /\ proc'[p].key = k /\ proc'[p].step = "load"
      BY <2>1, <2>3 DEF FillKey, Goto, Finish, Processes
    <3> QED
      BY <1>0, <3>1 DEF IInv, InMemory, Running, Idle
  <2> QED
    BY <2>2, <2>3
<1> QED
  BY <1>3, <1>4, <1>5

\* A backup that finishes has secured what both stores hold.
LEMMA FinishBackup ==
  ASSUME TypeOK, IInv, NEW p \in Procs, FillMeta(p), proc[p].cmd = "backup"
  PROVE  /\ Stores' /\ \A q \in Procs : InMemory(q)'
         /\ HoldsSecret(key) /\ secured' \subseteq key.key.gens
<1> DEFINE c == backup["certify"]
           k == proc[p].key
<1>0. /\ Step(p) /\ UNCHANGED <<key, c, made>> /\ proc[p].step = "meta"
      /\ secured' = secured \cup k.gens
  BY DEF Step, FillMeta, Writing
<1>1. HoldsSecret(key) /\ k = key.key /\ (c.st = "ok" => c.key = key.key)
  BY <1>0 DEF IInv, InMemory, Running
<1>2. secured' = key.key.gens /\ made # 0
  BY <1>0, <1>1 DEF IInv, Stores, HoldsSecret
<1>3. Stores'
  BY <1>0, <1>1, <1>2 DEF IInv, Stores, HoldsSecret
<1>4. ASSUME NEW q \in Procs PROVE InMemory(q)'
  <2>1. CASE q = p
    BY <2>1 DEF FillMeta, Finish, TypeOK, InMemory, Running, Idle
  <2>2. CASE q # p
    <3>1. proc'[q] = proc[q] /\ proc[q].cmd \in {"none", "backup"}
      BY <1>0, <2>2, StepShape DEF IInv, Overlap, Running
    <3> QED
      BY <1>0, <3>1 DEF IInv, InMemory, Running, HoldsSecret
  <2> QED
    BY <2>1, <2>2
<1> QED
  BY <1>1, <1>2, <1>3, <1>4

\* Whatever step a process takes, or dies at, both stores and the memory of every
\* process stay as the careful owner needs them.
LEMMA StepStores ==
  ASSUME TypeOK, IInv, NEW p \in Procs, Step(p) \/ Abort(p)
  PROVE  Stores' /\ \A q \in Procs : InMemory(q)'
<1> DEFINE Kept == Stores' /\ \A q \in Procs : InMemory(q)'
<1>0. proc \in [Procs -> Processes] /\ (proc[p].step # "idle" => proc[p].cmd # "none")
  BY AtStep DEF TypeOK, IInv
<1> USE DEF Processes, files
<1>1. CASE MakeBackupDir(p)
  BY <1>0, <1>1, Quiet DEF MakeBackupDir, At, Goto
<1>2. ASSUME NEW f \in BackupFiles, TruncBackup(p, f) \/ FillBackup(p, f) PROVE Kept
  BY <1>2, BackupFileStep
<1>4. CASE Confirm(p)
  BY <1>0, <1>4, Quiet DEF Confirm, At
<1>5. CASE Import(p)
  <2>1. proc'[p].key = proc[p].key /\ proc'[p].step = "import"
    BY <1>0, <1>5 DEF Import, At
  <2> QED
    BY <1>5, <2>1, Quiet DEF Import, At
<1>6. CASE ImportsDone(p)
  BY <1>0, <1>6, Quiet DEF ImportsDone, At, Goto
<1>7. CASE CheckSlots(p)
  <2>1. proc[p].cmd = "provision" /\ UNCHANGED <<key, backup, made, secured>>
    BY <1>7, AtStep DEF IInv, CheckSlots, At
  <2>2. proc'[p].cmd = "provision" /\ proc'[p].key = Public(proc[p].key)
    BY <1>0, <1>7, <2>1 DEF CheckSlots
  <2>3. ~proc'[p].key.secret /\ proc'[p].key.gens = proc[p].key.gens
    BY <1>0, <2>2 DEF Public, Keys
  <2>4. Stores'
    BY <2>1 DEF IInv, Stores, HoldsSecret
  <2>5. InMemory(p)'
    BY <2>1, <2>2, <2>3 DEF IInv, InMemory, Running
  <2> QED
    BY <1>7, <2>1, <2>4, <2>5, OthersIdle DEF IInv
<1>8. CASE TruncKey(p) \/ FillKey(p)
  BY <1>8, KeyFileStep
<1>10. CASE LoadMeta(p)
  BY <1>0, <1>10, Quiet DEF LoadMeta, At
<1>11. CASE TruncMeta(p)
  BY <1>0, <1>11, Quiet DEF TruncMeta, At, Open
<1>12. CASE FillMeta(p)
  <2>1. CASE proc[p].cmd = "backup"
    BY <1>12, <2>1, FinishBackup
  <2>2. CASE proc[p].cmd # "backup"
    <3>1. UNCHANGED <<key, backup["certify"], made, secured>> /\ proc[p].step = "meta"
      BY <1>12, <2>2 DEF FillMeta, Writing
    <3>2. \/ proc'[p].cmd = "none"
          \/ proc'[p].key = proc[p].key /\ proc'[p].step = "key" /\ proc[p].cmd = "create"
      BY <1>0, <1>12 DEF FillMeta, Goto, Finish, Idle
    <3> QED
      BY <1>12, <3>1, <3>2, Quiet
  <2> QED
    BY <2>1, <2>2
<1>13. CASE Abort(p)
  BY <1>0, <1>13, Quiet DEF Abort, Finish, Idle
<1> QED
  BY <1>1, <1>2, <1>4, <1>5, <1>6, <1>7, <1>8, <1>10, <1>11, <1>12, <1>13 DEF Step

\* A command that starts, alone or as a backup among backups, keeps the
\* invariant when the key it has loaded is one it may rely on.
LEMMA Started ==
  ASSUME TypeOK, IInv, NEW p \in Procs, proc[p] = Idle,
         NEW cmd \in Commands, NEW step \in StepsOf(cmd), NEW k, Start(p, cmd, step, k),
         UNCHANGED <<key, backup["certify"], secured>>, made' \in {made, made + 1},
         Alone \/ (cmd = "backup" /\ \A q \in Busy : proc[q].cmd = "backup")
  PROVE  /\ proc'[p].cmd = cmd /\ proc'[p].step = step /\ proc'[p].key = k
         /\ InMemory(p)' => IInv'
<1>1. proc'[p].cmd = cmd /\ proc'[p].step = step /\ proc'[p].key = k
  BY DEF Start, Idle, TypeOK
<1>2. ASSUME NEW q \in Procs, q # p PROVE proc'[q] = proc[q]
  BY <1>2 DEF Start, TypeOK
<1>3. made \in Nat
  BY GenAssumption DEF TypeOK
<1>4. Stores'
  BY <1>3 DEF IInv, Stores, HoldsSecret
<1>5. Shape'
  BY <1>1, <1>2 DEF IInv, Shape, Commands
<1>6. ASSUME NEW q \in Procs, q # p
      PROVE  proc[q].cmd = "none" \/ (cmd = "backup" /\ proc[q].cmd = "backup")
  BY <1>6 DEF Alone, Busy, Idle
<1>7. Overlap'
  BY <1>1, <1>2, <1>6 DEF Overlap, Running
<1>8. ASSUME NEW q \in Procs, q # p PROVE InMemory(q)'
  BY <1>2, <1>6, <1>8 DEF IInv, InMemory, Running, HoldsSecret
<1> QED
  BY <1>1, <1>4, <1>5, <1>7, <1>8 DEF IInv

\* A command the careful owner starts has loaded a key it may rely on.
LEMMA CommandKeepsIInv ==
  ASSUME TypeOK, IInv, NEW p \in Procs, CarefulCommand(p)
  PROVE  IInv'
<1> DEFINE c == backup["certify"]
<1>0. /\ c.st = "ok" => c.key.secret /\ secured \subseteq c.key.gens
      /\ HoldsSecret(key) => secured \subseteq key.key.gens
      /\ made = 0 => secured = {}
  BY DEF IInv, Stores
<1>s. key.key \in Keys
  BY DEF TypeOK, KeyFiles
<1> USE DEF files, InMemory, Running, Commands
<1>1. CASE StartBackup(p) /\ key.key.secret /\ \A q \in Busy : proc[q].cmd = "backup"
  <2>1. "mkdir" \in StepsOf("backup")
    BY StepsOfCommands
  <2>2. /\ proc'[p].cmd = "backup" /\ proc'[p].step = "mkdir" /\ proc'[p].key = key.key
        /\ InMemory(p)' => IInv'
    BY <1>1, <2>1, Started DEF StartBackup
  <2> QED
    BY <1>1, <2>2 DEF StartBackup, HoldsSecret
<1>2. CASE Alone /\ StartCreate(p)
  <2>1. "meta" \in StepsOf("create") /\ made' = made + 1
    BY <1>2, StepsOfCommands DEF StartCreate
  <2>2. /\ proc'[p].cmd = "create" /\ proc'[p].key = FirstKey
        /\ InMemory(p)' => IInv'
    BY <1>2, <2>1, Started DEF StartCreate
  <2> QED
    BY <1>0, <1>2, <2>2 DEF StartCreate, FirstKey
<1>3. CASE Alone /\ StartRestore(p)
  <2>1. "key" \in StepsOf("restore")
    BY StepsOfCommands
  <2>2. /\ proc'[p].cmd = "restore" /\ proc'[p].key = c.key
        /\ InMemory(p)' => IInv'
    BY <1>3, <2>1, Started DEF StartRestore
  <2> QED
    BY <1>3, <2>2 DEF StartRestore
<1>4. CASE Alone /\ SecretBackedUp /\ StartRenew(p)
  <2> DEFINE k == [key.key EXCEPT !.renewals = @ + 1]
  <2>1. "key" \in StepsOf("renew") /\ k.secret /\ k.gens = key.key.gens
    BY <1>4, <1>s, StepsOfCommands DEF Renewed, StartRenew, HoldsSecret, Keys
  <2>2. /\ proc'[p].cmd = "renew" /\ proc'[p].key = k
        /\ InMemory(p)' => IInv'
    BY <1>4, <2>1, Started DEF Renewed, StartRenew
  <2> HIDE DEF k
  <2> QED
    BY <1>0, <1>4, <2>1, <2>2 DEF Renewed, StartRenew, SecretBackedUp, HoldsSecret
<1>5. CASE Alone /\ SecretBackedUp /\ StartRotate(p)
  <2> DEFINE k == [key.key EXCEPT !.gens = @ \cup {made + 1}]
  <2>1. "key" \in StepsOf("rotate") /\ k.secret /\ key.key.gens \subseteq k.gens
    BY <1>5, <1>s, StepsOfCommands DEF Rotated, StartRotate, HoldsSecret, Keys
  <2>2. /\ proc'[p].cmd = "rotate" /\ proc'[p].key = k
        /\ InMemory(p)' => IInv'
    BY <1>5, <2>1, Started DEF Rotated, StartRotate
  <2> HIDE DEF k
  <2> QED
    BY <1>0, <1>5, <2>1, <2>2 DEF Rotated, StartRotate, SecretBackedUp, HoldsSecret
<1>6. CASE /\ Alone /\ SecretBackedUp /\ key.key.gens \subseteq c.key.gens
           /\ StartProvision(p)
  <2>1. "confirm" \in StepsOf("provision")
    BY StepsOfCommands
  <2>2. /\ proc'[p].cmd = "provision" /\ proc'[p].step = "confirm" /\ proc'[p].key = key.key
        /\ InMemory(p)' => IInv'
    BY <1>6, <2>1, Started DEF StartProvision
  <2> QED
    BY <1>6, <2>2 DEF StartProvision, SecretBackedUp, HoldsSecret
<1> QED
  BY <1>1, <1>2, <1>3, <1>4, <1>5, <1>6 DEF CarefulCommand

\* A new data directory, and one a backup was copied into, satisfy the invariant.
LEMMA InitIInv == Init => IInv
<1> SUFFICES ASSUME Init PROVE IInv
  OBVIOUS
<1>1. \A p \in Procs : proc[p] = Idle /\ proc[p].cmd = "none" /\ proc[p].step = "idle"
  BY DEF Init, Idle
<1>2. Shape /\ Overlap /\ \A p \in Procs : InMemory(p)
  BY <1>1, StepsOfCommands DEF Shape, Overlap, InMemory, Running
<1>3. Stores
  <2>1. CASE dir = FALSE
    BY <2>1 DEF Init, Stores, HoldsSecret, Absent, BackupFiles
  <2>2. CASE dir = TRUE
    <3>1. backup["certify"] = Ok(FirstKey)
      BY <2>2 DEF Init, FullBackup, BackupFiles
    <3> QED
      BY <2>2, <3>1 DEF Init, Stores, HoldsSecret, Absent, Ok, FirstKey
  <2> QED
    BY <2>1, <2>2 DEF Init
<1> QED
  BY <1>2, <1>3 DEF IInv

\* IInv is inductive, given the types, for everything the careful owner may do.
LEMMA NextIInv == TypeOK /\ IInv /\ [CarefulNext]_vars => IInv'
<1> SUFFICES ASSUME TypeOK, IInv, [CarefulNext]_vars PROVE IInv'
  OBVIOUS
<1>1. CASE CardReset
  BY <1>1 DEF CardReset, files, IInv, Shape, Overlap, Stores, InMemory, Running, HoldsSecret
<1>2. ASSUME NEW p \in Procs, CarefulCommand(p) PROVE IInv'
  BY <1>2, CommandKeepsIInv
<1>3. ASSUME NEW p \in Procs, Step(p) \/ Abort(p) PROVE IInv'
  BY <1>3, StepShape, StepOverlap, StepStores DEF IInv
<1>4. CASE UNCHANGED vars
  BY <1>4 DEF vars, IInv, Shape, Overlap, Stores, InMemory, Running, HoldsSecret
<1> QED
  BY <1>1, <1>2, <1>3, <1>4 DEF CarefulNext

\* The careful owner does nothing that Next does not allow.
LEMMA CarefulIsAllowed == [CarefulNext]_vars => [Next]_vars
BY DEF CarefulNext, CarefulCommand, Next, Command

\* The careful owner's kdub keeps the inductive invariant.
THEOREM CarefulInvariant == CarefulSpec => [](TypeOK /\ IInv)
<1>1. Init => TypeOK /\ IInv
  BY InitTypes, InitIInv
<1>2. TypeOK /\ IInv /\ [CarefulNext]_vars => (TypeOK /\ IInv)'
  BY NextTypes, NextIInv, CarefulIsAllowed
<1> QED
  BY <1>1, <1>2, PTL DEF CarefulSpec

\* A careful owner never loses a generation that was reported as backed up,
\* for any number of processes, rotations and renewals, wherever one dies.
THEOREM CarefulOwnerLosesNothing == CarefulSpec => []SecuredNeverLost
<1>1. IInv => SecuredNeverLost
  BY DEF IInv, Stores, SecuredNeverLost, Usable, HoldsSecret
<1> QED
  BY <1>1, CarefulInvariant, PTL

\* For a careful owner a card stub always has its secrets in certify-key.asc.
THEOREM CarefulStubIsBackedUp == CarefulSpec => []StubIsBackedUp
<1>1. IInv => StubIsBackedUp
  BY DEF IInv, Stores, StubIsBackedUp, Usable, HoldsSecret
<1> QED
  BY <1>1, CarefulInvariant, PTL

-----------------------------------------------------------------------------
(* The careful owner's kdub implements KeyCustody.                         *)

\* What can be used from a store is a set of generations.
LEMMA UsableTypes ==
  ASSUME TypeOK
  PROVE  Usable(key) \in SUBSET Gens /\ Usable(backup["certify"]) \in SUBSET Gens
BY DEF TypeOK, KeyFiles, Keys, BackupFiles, Usable

\* A step writes one of the two stores or what is secured, never two of them,
\* and what is secured only grows.
LEMMA OneAtATime ==
  ASSUME TypeOK, [CarefulNext]_vars
  PROVE  \/ UNCHANGED <<backup["certify"], secured>>
         \/ UNCHANGED <<key, secured>>
         \/ UNCHANGED <<key, backup["certify"]>> /\ secured \subseteq secured'
<1> DEFINE Good == \/ UNCHANGED <<backup["certify"], secured>>
                   \/ UNCHANGED <<key, secured>>
                   \/ UNCHANGED <<key, backup["certify"]>> /\ secured \subseteq secured'
<1>1. CASE CardReset \/ UNCHANGED vars
  BY <1>1 DEF CardReset, files, vars
<1>2. ASSUME NEW p \in Procs, Command(p) \/ Abort(p) PROVE Good
  BY <1>2 DEF Command, StartCreate, StartBackup, StartRestore, StartRenew, StartRotate,
     StartProvision, Abort, files
<1>3. ASSUME NEW p \in Procs, Step(p) PROVE Good
  <2>1. CASE MakeBackupDir(p) \/ Confirm(p) \/ Import(p) \/ ImportsDone(p) \/ CheckSlots(p)
             \/ LoadMeta(p) \/ TruncMeta(p) \/ TruncKey(p) \/ FillKey(p)
    BY <2>1 DEF MakeBackupDir, Confirm, Import, ImportsDone, CheckSlots, LoadMeta, TruncMeta,
       TruncKey, FillKey, files
  <2>2. ASSUME NEW f \in BackupFiles, TruncBackup(p, f) \/ FillBackup(p, f) PROVE Good
    BY <2>2 DEF TruncBackup, FillBackup
  <2>3. CASE FillMeta(p)
    BY <2>3 DEF FillMeta
  <2> QED
    BY <1>3, <2>1, <2>2, <2>3 DEF Step
<1> QED
  BY <1>1, <1>2, <1>3, CarefulIsAllowed DEF Next

\* A step of the careful owner's kdub is a step of KeyCustody, or a stutter.
LEMMA StepIsCustody ==
  ASSUME TypeOK, IInv, TypeOK', IInv', [CarefulNext]_vars
  PROVE  [Custody!Next]_(Custody!vars)
<1> DEFINE local == Usable(key)
           vault == Usable(backup["certify"])
<1>1. local' \in SUBSET Gens /\ vault' \in SUBSET Gens /\ secured' \in SUBSET Gens
  BY UsableTypes DEF TypeOK, KeyFiles, Keys, BackupFiles, Usable, HoldsSecret
<1>2. secured' \subseteq local' \/ secured' \subseteq vault'
  BY DEF IInv, Stores, Usable, HoldsSecret
<1>3. CASE UNCHANGED <<backup["certify"], secured>>
  BY <1>1, <1>2, <1>3 DEF Custody!Next, Custody!StoreWrite, Usable, HoldsSecret
<1>4. CASE UNCHANGED <<key, secured>>
  BY <1>1, <1>2, <1>4 DEF Custody!Next, Custody!VaultWrite, Usable, HoldsSecret
<1>5. CASE UNCHANGED <<key, backup["certify"]>> /\ secured \subseteq secured'
  BY <1>1, <1>2, <1>5 DEF Custody!Next, Custody!Acknowledge, Usable, HoldsSecret
<1> QED
  BY <1>3, <1>4, <1>5, OneAtATime

\* The initial states are initial states of KeyCustody.
LEMMA InitIsCustody == Init => Custody!Init
<1> SUFFICES ASSUME Init PROVE Custody!Init
  OBVIOUS
<1>1. Usable(key) = {}
  BY DEF Init, Absent, Usable, HoldsSecret
<1>2. Usable(backup["certify"]) \in SUBSET Gens
  BY InitTypes, UsableTypes
<1>3. secured \subseteq Usable(backup["certify"])
  BY <1>1, InitIInv DEF IInv, Stores, Usable, HoldsSecret
<1> QED
  BY <1>1, <1>2, <1>3 DEF Custody!Init

\* Every behaviour of the careful owner's kdub is one KeyCustody allows: no step
\* touches both stores, none gives up the last copy of something secured.
THEOREM CarefulOwnerKeepsCustody == CarefulSpec => CustodyKept
<1>1. TypeOK /\ IInv /\ (TypeOK /\ IInv)' /\ [CarefulNext]_vars => [Custody!Next]_(Custody!vars)
  BY StepIsCustody
<1> QED
  BY <1>1, CarefulInvariant, InitIsCustody, PTL DEF CarefulSpec, CustodyKept, Custody!Spec

-----------------------------------------------------------------------------
(* What is on the card when a careful owner's key file becomes a stub.     *)

\* Importing the oldest remaining generation, use by use, leaves each slot with
\* the newest generation imported so far.
LEMMA ImportAdvances ==
  ASSUME NEW gens \in SUBSET Gens, NEW rest \in SUBSET Gens, NEW slot \in Slots,
         NEW old \in [Slots -> 0..MaxGen], Imported(old, gens, rest, slot),
         NEW g \in Gens, NextSubkey(g, rest)
  PROVE  Imported([old EXCEPT ![slot] = g], gens,
                  IF slot = 3 THEN rest \ {g} ELSE rest,
                  IF slot = 3 THEN 1 ELSE slot + 1)
<1> DEFINE new == [old EXCEPT ![slot] = g]
<1>0. /\ Gens \subseteq Nat /\ g \in rest /\ rest \subseteq gens
      /\ \A h \in rest : g <= h
      /\ \A a \in gens \ rest, h \in rest : a < h
  BY GenAssumption DEF Gens, NextSubkey, Imported
<1>1. /\ new[slot] = g
      /\ \A s \in Slots : s # slot => new[s] = old[s]
      /\ \A s \in Slots : old[s] \in Nat
  BY GenAssumption DEF Gens
<1> HIDE DEF new
<1>2. CASE slot # 3
  <2>1. slot + 1 # 1 /\ slot \in 1..2
    BY <1>2 DEF Slots
  <2>2. ASSUME NEW s \in Slots
        PROVE  IF s < slot + 1 THEN NextSubkey(new[s], rest)
                               ELSE gens \ rest # {} => Newest(new[s], gens \ rest)
    <3>1. CASE s = slot
      BY <1>1, <2>1, <3>1
    <3>2. CASE s # slot
      <4>1. new[s] = old[s] /\ (s < slot + 1 <=> s < slot)
        BY <1>1, <2>1, <3>2 DEF Slots
      <4> QED
        BY <2>1, <4>1 DEF Imported
    <3> QED
      BY <3>1, <3>2
  <2>3. Imported(new, gens, rest, slot + 1)
    BY <1>0, <2>2 DEF Imported
  <2> QED
    BY <1>2, <2>3 DEF new
<1>3. CASE slot = 3
  <2> DEFINE r == rest \ {g}
  <2>2. gens \ r = (gens \ rest) \cup {g}
    BY <1>0
  <2>3. \A a \in gens \ r, h \in r : a < h
    BY <1>0, <2>2
  <2>4. Newest(g, gens \ r)
    BY <1>0, <2>2 DEF Newest
  <2>5. ASSUME NEW s \in Slots PROVE new[s] = g
    <3>1. CASE s = 3
      BY <1>1, <1>3, <3>1
    <3>2. CASE s # 3
      <4>1. s < slot /\ new[s] = old[s]
        BY <1>1, <1>3, <3>2 DEF Slots
      <4>2. old[s] \in rest /\ \A h \in rest : old[s] <= h
        BY <4>1 DEF Imported, NextSubkey
      <4> QED
        BY <1>0, <1>1, <4>1, <4>2
    <3> QED
      BY <3>1, <3>2
  <2>6. \A s \in Slots : ~(s < 1)
    BY DEF Slots
  <2>7. Imported(new, gens, r, 1)
    BY <1>0, <2>3, <2>4, <2>5, <2>6 DEF Imported
  <2> QED
    BY <1>3, <2>7 DEF new
<1> QED
  BY <1>2, <1>3

\* The first generation is in every key: a save writes the key in memory, and
\* what is in memory keeps its generations.
LEMMA BornKept ==
  ASSUME Born, NEW p \in Procs, proc[p].cmd # "none",
         \A q \in Procs : q # p => proc'[q] = proc[q],
         proc'[p].cmd = "none" \/ proc'[p].key.gens = proc[p].key.gens,
         key' \in {key, Torn, Ok(proc[p].key)},
         backup'["certify"] \in {backup["certify"], Torn, Ok(proc[p].key)}
  PROVE  Born'
<1>1. 1 \in proc[p].key.gens
  BY DEF Born, Running
<1> QED
  BY <1>1 DEF Born, Running, Torn, Ok

\* What a step writes to the key file and to certify-key.asc is the key that the
\* command has in memory.
LEMMA StepKeepsBorn ==
  ASSUME TypeOK, IInv, Born, NEW p \in Procs, Step(p) \/ Abort(p)
  PROVE  Born'
<1>0. /\ proc[p].cmd # "none" /\ \A q \in Procs : q # p => proc'[q] = proc[q]
      /\ proc \in [Procs -> Processes]
  BY StepShape DEF IInv, TypeOK
<1> USE DEF Processes, files
<1>1. ASSUME NEW f \in BackupFiles, TruncBackup(p, f) PROVE Born'
  <2>1. backup'["certify"] \in {backup["certify"], Torn}
    BY <1>1 DEF TruncBackup, TypeOK, BackupFiles
  <2>2. proc'[p].key = proc[p].key /\ key' = key
    BY <1>0, <1>1 DEF TruncBackup, Open
  <2> QED
    BY <1>0, <2>1, <2>2, BornKept
<1>2. ASSUME NEW f \in BackupFiles, FillBackup(p, f) PROVE Born'
  <2>1. backup'["certify"] \in {backup["certify"], Torn, Ok(proc[p].key)}
    <3>1. CASE f # "certify"
      BY <1>2, <3>1 DEF FillBackup, TypeOK, BackupFiles
    <3>2. CASE f = "certify"
      <4>1. BackupContents(f, proc[p].key) = {Ok(proc[p].key)}
        BY <3>2 DEF BackupContents
      <4> QED
        BY <1>2, <3>2, <4>1, FilledTypes DEF FillBackup, TypeOK, BackupFiles
    <3> QED
      BY <3>1, <3>2
  <2>2. proc'[p].key = proc[p].key /\ key' = key
    BY <1>0, <1>2 DEF FillBackup, Goto
  <2> QED
    BY <1>0, <2>1, <2>2, BornKept
<1>3. CASE MakeBackupDir(p) \/ Confirm(p) \/ Import(p) \/ ImportsDone(p) \/ LoadMeta(p)
           \/ TruncMeta(p)
  <2>1. proc'[p].key = proc[p].key /\ key' = key /\ backup' = backup
    BY <1>0, <1>3 DEF MakeBackupDir, Confirm, Import, ImportsDone, LoadMeta, TruncMeta, Goto, Open
  <2> QED
    BY <1>0, <2>1, BornKept
<1>4. CASE CheckSlots(p)
  <2>1. proc'[p].key.gens = proc[p].key.gens /\ key' = key /\ backup' = backup
    BY <1>0, <1>4 DEF CheckSlots, Public, Keys
  <2> QED
    BY <1>0, <2>1, BornKept
<1>5. CASE TruncKey(p) \/ FillKey(p)
  <2>1. key' \in {Torn, Ok(proc[p].key)} /\ backup' = backup
    BY <1>5, FilledTypes DEF TruncKey, FillKey
  <2>2. proc'[p].cmd = "none" \/ proc'[p].key = proc[p].key
    BY <1>0, <1>5 DEF TruncKey, FillKey, Open, Goto, Finish, Idle
  <2> QED
    BY <1>0, <2>1, <2>2, BornKept
<1>6. CASE FillMeta(p) \/ Abort(p)
  <2>1. proc'[p].cmd = "none" \/ proc'[p].key = proc[p].key
    BY <1>0, <1>6 DEF FillMeta, Abort, Goto, Finish, Idle
  <2> QED
    BY <1>0, <1>6, <2>1, BornKept DEF FillMeta, Abort
<1> QED
  BY <1>1, <1>2, <1>3, <1>4, <1>5, <1>6 DEF Step

\* Nobody touches the card beside a provision, and the provision itself moves
\* from the imports to the stub only with every generation imported.
LEMMA StepKeepsCInv ==
  ASSUME TypeOK, IInv, CInv, NEW p \in Procs, Step(p) \/ Abort(p)
  PROVE  CInv'
<1>0. /\ proc[p].cmd # "none" /\ proc'[p].cmd \in {proc[p].cmd, "none"}
      /\ \A q \in Procs : q # p => proc'[q] = proc[q]
      /\ proc \in [Procs -> Processes] /\ proc[p] \in Processes
  BY StepShape DEF IInv, TypeOK
<1>1. ASSUME NEW q \in Procs, q # p PROVE OnCard(q)'
  BY <1>0, <1>1 DEF IInv, Overlap, OnCard, Running
<1>2. OnCard(p)'
  <2> SUFFICES ASSUME proc[p].cmd = "provision", proc'[p].cmd = "provision"
               PROVE  OnCard(p)'
    BY <1>0 DEF OnCard, Running
  <2> USE DEF Processes
  <2>0. OnCard(p) /\ proc[p].key.gens \in SUBSET Gens
    BY <1>0 DEF CInv, Keys
  <2>1. CASE Confirm(p)
    <3>1. /\ proc'[p].step = "import" /\ proc'[p].slot = 1
          /\ proc'[p].key = proc[p].key /\ proc'[p].rest = proc[p].key.gens
      BY <1>0, <2>0, <2>1 DEF Confirm, At, OnCard, Running
    <3>2. \A s \in Slots : ~(s < 1)
      BY DEF Slots
    <3> QED
      BY <3>1, <3>2 DEF OnCard, Imported
  <2>2. CASE Import(p)
    <3> DEFINE gens == proc[p].key.gens
               rest == proc[p].rest
               slot == proc[p].slot
    <3>1. PICK g \in Gens :
            /\ NextSubkey(g, rest)
            /\ card' = [card EXCEPT ![slot] = g]
            /\ proc' = [proc EXCEPT ![p].slot = IF @ = 3 THEN 1 ELSE @ + 1,
                                    ![p].rest = IF slot = 3 THEN @ \ {g} ELSE @]
      BY <2>2 DEF Import
    <3>2. Imported(card, gens, rest, slot) /\ proc[p].step = "import"
      BY <2>0, <2>2 DEF Import, At, OnCard, Running
    <3>3. /\ proc'[p].key = proc[p].key /\ proc'[p].step = "import"
          /\ proc'[p].rest = (IF slot = 3 THEN rest \ {g} ELSE rest)
          /\ proc'[p].slot = (IF slot = 3 THEN 1 ELSE slot + 1)
      BY <1>0, <3>1, <3>2
    <3>4. /\ rest \in SUBSET Gens /\ slot \in Slots /\ gens \in SUBSET Gens
          /\ card \in [Slots -> 0..MaxGen]
      BY <1>0, <2>0 DEF TypeOK
    <3> HIDE DEF gens, rest, slot
    <3>5. NextSubkey(g, rest) /\ card' = [card EXCEPT ![slot] = g]
      BY <3>1
    <3>6. Imported([card EXCEPT ![slot] = g], gens,
                   IF slot = 3 THEN rest \ {g} ELSE rest,
                   IF slot = 3 THEN 1 ELSE slot + 1)
      BY <3>2, <3>4, <3>5, ImportAdvances
    <3>7. Imported(card', gens, proc'[p].rest, proc'[p].slot)
      BY <3>3, <3>5, <3>6
    <3> QED
      BY <3>3, <3>7 DEF OnCard, Running, gens
  <2>3. CASE ImportsDone(p)
    <3>1. /\ Imported(card, proc[p].key.gens, {}, proc[p].slot)
          /\ 1 \in proc[p].key.gens
      BY <2>0, <2>3 DEF ImportsDone, At, OnCard, Running, CInv, Born
    <3>2. proc[p].slot = 1 /\ \A s \in Slots : ~(s < 1)
      BY <3>1 DEF Imported, Slots
    <3>3. \A s \in Slots : Newest(card[s], proc[p].key.gens)
      BY <3>1, <3>2 DEF Imported
    <3>4. proc'[p].step = "check" /\ proc'[p].key = proc[p].key /\ card' = card
      BY <1>0, <2>3 DEF ImportsDone, Goto
    <3> QED
      BY <3>3, <3>4 DEF OnCard, Newest
  <2>4. CASE CheckSlots(p)
    <3>1. \A s \in Slots : Newest(card[s], proc[p].key.gens)
      BY <2>0, <2>4 DEF CheckSlots, At, OnCard, Running
    <3>2. proc'[p].step = "key" /\ proc'[p].key.gens = proc[p].key.gens /\ card' = card
      BY <1>0, <2>4 DEF CheckSlots, Public, Keys
    <3> QED
      BY <3>1, <3>2 DEF OnCard, Newest
  <2>5. CASE TruncKey(p)
    <3>1. /\ proc[p].step = "key" /\ proc'[p].step = "key"
          /\ proc'[p].key = proc[p].key /\ card' = card
      BY <1>0, <2>5 DEF TruncKey, At, Open
    <3> QED
      BY <2>0, <3>1 DEF OnCard, Newest, Running
  <2>6. CASE \/ FillKey(p) \/ LoadMeta(p) \/ TruncMeta(p) \/ FillMeta(p)
    <3>1. proc'[p].step \in {"load", "meta"}
      BY <1>0, <2>6
         DEF FillKey, LoadMeta, TruncMeta, FillMeta, At, Goto, Open, Finish, Idle
    <3> QED
      BY <3>1 DEF OnCard
  <2>7. CASE Abort(p)
    BY <1>0, <2>7 DEF Abort, Finish, Idle
  <2>8. ~MakeBackupDir(p) /\ \A f \in BackupFiles : ~TruncBackup(p, f) /\ ~FillBackup(p, f)
    BY AtStep DEF IInv, MakeBackupDir, TruncBackup, FillBackup, At, Writing
  <2> QED
    BY <2>1, <2>2, <2>3, <2>4, <2>5, <2>6, <2>7, <2>8 DEF Step
<1> QED
  BY <1>1, <1>2, StepKeepsBorn DEF CInv

\* A command that starts has loaded a key with its first generation, and has
\* imported nothing.
LEMMA CommandKeepsCInv ==
  ASSUME TypeOK, CInv, NEW p \in Procs, CarefulCommand(p)
  PROVE  CInv'
<1> USE DEF files
<1>0. /\ Idle.cmd = "none" /\ Idle.slot = 1
      /\ proc \in [Procs -> Processes]
      /\ key.key \in Keys
  BY DEF Idle, TypeOK, KeyFiles
<1>1. ASSUME NEW q \in Procs, q # p PROVE proc[q].cmd # "provision"
  <2>1. proc[q] = Idle \/ proc[q].cmd = "backup"
    BY DEF CarefulCommand, Alone, Busy
  <2> QED
    BY <1>0, <2>1
<1>2. PICK cmd, step, k :
        Start(p, cmd, step, k) /\ 1 \in k.gens /\ (cmd = "provision" => step = "confirm")
  <2>1. CASE StartCreate(p)
    <3>1. 1 \in FirstKey.gens
      BY DEF FirstKey
    <3> QED
      BY <2>1, <3>1 DEF StartCreate
  <2>2. CASE StartRestore(p)
    <3>1. 1 \in backup["certify"].key.gens
      BY <2>2 DEF StartRestore, CInv, Born
    <3> QED
      BY <2>2, <3>1 DEF StartRestore
  <2>3. CASE StartBackup(p) \/ StartProvision(p) \/ StartRenew(p) \/ StartRotate(p)
    <3>1. 1 \in key.key.gens
      BY <2>3 DEF StartBackup, StartProvision, StartRenew, StartRotate, HoldsSecret, CInv, Born
    <3>2. 1 \in Renewed(key.key).gens /\ 1 \in Rotated(key.key, made + 1).gens
      BY <1>0, <3>1 DEF Renewed, Rotated, Keys
    <3> QED
      BY <2>3, <3>1, <3>2 DEF StartBackup, StartProvision, StartRenew, StartRotate
  <2> QED
    BY <2>1, <2>2, <2>3 DEF CarefulCommand
<1>3. UNCHANGED <<key, backup, card>>
  BY DEF CarefulCommand, StartCreate, StartBackup, StartRestore, StartRenew, StartRotate,
     StartProvision
<1>4. /\ proc'[p].cmd = cmd /\ proc'[p].step = step /\ proc'[p].key = k /\ proc'[p].slot = 1
      /\ \A q \in Procs : q # p => proc'[q] = proc[q]
  BY <1>0, <1>2 DEF Start, Idle
<1>5. Born'
  BY <1>2, <1>3, <1>4 DEF CInv, Born, Running
<1>6. \A q \in Procs : OnCard(q)'
  BY <1>1, <1>2, <1>4 DEF OnCard, Running
<1> QED
  BY <1>5, <1>6 DEF CInv

\* A new data directory, and one a backup was copied into.
LEMMA InitCInv == Init => CInv
<1> SUFFICES ASSUME Init PROVE CInv
  OBVIOUS
<1>1. \A p \in Procs : proc[p].cmd = "none"
  BY DEF Init, Idle
<1>2. key.st # "ok"
  BY DEF Init, Absent
<1>3. backup["certify"].st = "ok" => 1 \in backup["certify"].key.gens
  <2>1. backup["certify"] = Absent \/ backup["certify"] = Ok(FirstKey)
    BY DEF Init, FullBackup, BackupFiles
  <2> QED
    BY <2>1 DEF Absent, Ok, FirstKey
<1> QED
  BY <1>1, <1>2, <1>3 DEF CInv, Born, OnCard, Running

\* CInv is inductive, given the types and IInv, for everything the careful owner
\* may do.
LEMMA NextCInv == TypeOK /\ IInv /\ CInv /\ [CarefulNext]_vars => CInv'
<1> SUFFICES ASSUME TypeOK, IInv, CInv, [CarefulNext]_vars PROVE CInv'
  OBVIOUS
<1>1. CASE Alone /\ CardReset
  <2>1. \A p \in Procs : proc'[p] = proc[p] /\ proc[p].cmd = "none"
    BY <1>1 DEF CardReset, Alone, Busy, Idle
  <2> QED
    BY <1>1, <2>1 DEF CardReset, files, CInv, Born, OnCard, Running
<1>2. CASE UNCHANGED vars
  BY <1>2 DEF vars, CInv, Born, OnCard, Imported, Newest, NextSubkey, Running
<1> QED
  BY <1>1, <1>2, CommandKeepsCInv, StepKeepsCInv DEF CarefulNext

\* The one step of a careful owner that writes the key file while a provision has
\* it open saves that provision's stub, with the newest generation on the card.
LEMMA StubHasNewestOnCard ==
  ASSUME TypeOK, IInv, CInv, [CarefulNext]_vars
  PROVE  StubStep
<1> SUFFICES ASSUME NEW p \in Procs, proc[p].cmd = "provision", Writing(p, "key"),
                    key'.st = "ok", key' # key
             PROVE  \A s \in Slots : Newest(card[s], key'.key.gens)
  BY DEF StubStep, Newest
<1>1. FillKey(p)
  <2>1. PICK q \in Procs : Step(q)
    BY DEF CarefulNext, CarefulCommand, CardReset, StartCreate, StartBackup, StartRestore,
       StartRenew, StartRotate, StartProvision, Abort, vars, files
  <2>2. q = p
    BY <2>1, StepShape DEF IInv, Overlap, Running
  <2> QED
    BY <2>1, <2>2 DEF Step, MakeBackupDir, TruncBackup, FillBackup, Confirm, Import,
       ImportsDone, CheckSlots, TruncKey, LoadMeta, TruncMeta, FillMeta, files, Writing, At
<1>2. key' = Ok(proc[p].key)
  BY <1>1, FilledTypes DEF FillKey, Torn
<1>3. \A s \in Slots : Newest(card[s], proc[p].key.gens)
  BY DEF CInv, OnCard, Running, Writing
<1> QED
  BY <1>2, <1>3 DEF Ok

\* Whenever a careful owner's provision turns the key file into a stub, every slot
\* of the card has the newest generation of that key, for any number of
\* generations and whatever earlier provisions left on the card.
THEOREM NewestGoesOnCard == CarefulSpec => NewestOnCard
<1>1. TypeOK /\ IInv /\ CInv /\ [CarefulNext]_vars => CInv'
  BY NextCInv
<1>2. TypeOK /\ IInv /\ CInv /\ [CarefulNext]_vars => [StubStep]_vars
  BY StubHasNewestOnCard
<1> QED
  BY <1>1, <1>2, InitCInv, CarefulInvariant, PTL DEF CarefulSpec, NewestOnCard

=============================================================================
