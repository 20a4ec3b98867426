---------------------------- MODULE KeyLifecycle ----------------------------
(***************************************************************************)
(* One OpenPGP identity of kdub, from `key create` to `card provision`:    *)
(* its key file and metadata in the identity store, its backup directory,  *)
(* the smart card, and the kdub processes that work on them.               *)
(*                                                                         *)
(* Every kdub command is a process of its own; nothing is locked.  A file  *)
(* is saved with fs::write, which truncates it and then fills it, so every *)
(* save is a Trunc and a Fill step and a process that dies in between      *)
(* leaves a torn file.  What a command reads from a file it keeps in its   *)
(* own record "proc[p]" while it goes on, across prompts.                  *)
(***************************************************************************)
EXTENDS Naturals, FiniteSets

CONSTANTS
  Procs,      \* kdub processes that may run at the same time
  MaxGen,     \* bound: subkey generations the identity ever gets
  MaxRenew    \* bound: renewals of the key, which only tell its versions apart

ASSUME GenAssumption == MaxGen \in Nat \ {0}
ASSUME RenewAssumption == MaxRenew \in Nat

Gens == 1..MaxGen
Slots == 1..3                      \* signature, decryption, authentication
Stamps == {"backed_up", "provisioned"}   \* the dates of renewal and rotation are left out
BackupFiles == {"certify", "subkeys", "public", "ownertrust", "revocation"}
Commands == {"create", "backup", "restore", "renew", "rotate", "provision"}
Steps == BackupFiles \cup
         {"idle", "mkdir", "confirm", "import", "check", "key", "load", "meta"}

\* A key without its secrets is a stub in the key file, a public key elsewhere.
Keys == [secret : BOOLEAN, gens : SUBSET Gens, renewals : 0..MaxRenew]
NoKey == [secret |-> FALSE, gens |-> {}, renewals |-> 0]
Public(k) == [k EXCEPT !.secret = FALSE]

KeyFiles == [st : {"absent", "torn", "ok", "placeholder"}, key : Keys]
Absent == [st |-> "absent", key |-> NoKey]
Torn == [st |-> "torn", key |-> NoKey]
Placeholder == [st |-> "placeholder", key |-> NoKey]
Ok(k) == [st |-> "ok", key |-> k]

MetaFiles == [st : {"absent", "torn", "ok"}, stamps : SUBSET Stamps]
NoMeta == [st |-> "absent", stamps |-> {}]
TornMeta == [st |-> "torn", stamps |-> {}]
Metadata(s) == [st |-> "ok", stamps |-> s]

Processes == [cmd : Commands \cup {"none"}, step : Steps, open : BOOLEAN,
              key : Keys, stamps : SUBSET Stamps,
              rest : SUBSET Gens, slot : Slots]
Idle == [cmd |-> "none", step |-> "idle", open |-> FALSE, key |-> NoKey,
         stamps |-> {}, rest |-> {}, slot |-> 1]

VARIABLES
  key,       \* identities/FINGERPRINT.key
  meta,      \* identities/FINGERPRINT.json
  dir,       \* does backups/FINGERPRINT/ exist
  backup,    \* the five files in it
  card,      \* generation in each card slot, 0 when the slot is empty
  made,      \* generations made so far
  proc,      \* what each process is doing and holds in memory
  secured    \* generations a finished `key backup` reported as backed up

vars == <<key, meta, dir, backup, card, made, proc, secured>>
files == <<key, meta, dir, backup>>

HoldsSecret(f) == f.st = "ok" /\ f.key.secret
Usable(f) == IF HoldsSecret(f) THEN f.key.gens ELSE {}
EmptyCard == [s \in Slots |-> 0]
Busy == {p \in Procs : proc[p] # Idle}

\* Renewal and rotation append: new binding signatures, new subkeys.
Renewed(k) == [k EXCEPT !.renewals = @ + 1]
\* Mutant: the old subkeys are dropped from the key.
RotatedDropOld(k, g) == [k EXCEPT !.gens = {g}]
Rotated(k, g) == [k EXCEPT !.gens = @ \cup {g}]

FirstKey == [secret |-> TRUE, gens |-> {1}, renewals |-> 0]
FullBackup(k) ==
  [f \in BackupFiles |-> CASE f \in {"certify", "subkeys"} -> Ok(k)
                           [] f \in {"public", "revocation"} -> Ok(Public(k))
                           [] f = "ownertrust" -> Ok(NoKey)]

\* A new data directory, or one a backup directory was copied into.
Init ==
  /\ key = Absent /\ meta = NoMeta
  /\ card = EmptyCard
  /\ proc = [p \in Procs |-> Idle]
  /\ \/ /\ dir = FALSE /\ made = 0 /\ secured = {}
        /\ backup = [f \in BackupFiles |-> Absent]
     \/ /\ dir = TRUE /\ made = 1 /\ secured = {1}
        /\ backup = FullBackup(FirstKey)
-----------------------------------------------------------------------------
(* Saving a file: truncated first, then filled with the new content.  When *)
(* another process filled it in between, the shorter of the two contents   *)
(* leaves the tail of the longer one behind.                               *)

Filled(f, new, torn) ==
  IF f.st \in {"ok", "placeholder"} /\ f # new THEN {new, torn} ELSE {new}

At(p, step) == proc[p].step = step /\ ~proc[p].open
Writing(p, step) == proc[p].step = step /\ proc[p].open
Open(p) == proc' = [proc EXCEPT ![p].open = TRUE]
Goto(p, step) == proc' = [proc EXCEPT ![p].step = step, ![p].open = FALSE]
Finish(p) == proc' = [proc EXCEPT ![p] = Idle]
Start(p, cmd, step, k) ==
  proc' = [proc EXCEPT ![p] = [Idle EXCEPT !.cmd = cmd, !.step = step, !.key = k]]
-----------------------------------------------------------------------------
(* The six commands up to their first write: what they check and load.  A  *)
(* command that one of its checks refuses changes nothing.                 *)

StartCreate(p) ==       \* the fingerprint is new: nothing of it exists yet
  /\ proc[p] = Idle /\ made = 0
  /\ made' = 1
  /\ Start(p, "create", "meta", FirstKey)
  /\ UNCHANGED <<files, card, secured>>

StartBackup(p) ==       \* no check for a stub; the prompt comes after the load
  /\ proc[p] = Idle /\ meta.st = "ok" /\ key.st = "ok"
  /\ Start(p, "backup", "mkdir", key.key)
  /\ UNCHANGED <<files, card, made, secured>>

\* Mutant: certify-key.asc need not be readable.
StartRestoreUnchecked(p) ==
  /\ proc[p] = Idle /\ dir
  /\ Start(p, "restore", "key", backup["certify"].key)
  /\ UNCHANGED <<files, card, made, secured>>

StartRestore(p) ==      \* certify-key.asc must be there and parse
  /\ proc[p] = Idle /\ dir /\ backup["certify"].st = "ok"
  /\ Start(p, "restore", "key", backup["certify"].key)
  /\ UNCHANGED <<files, card, made, secured>>

StartRenew(p) ==        \* a stub is refused
  /\ proc[p] = Idle /\ meta.st = "ok" /\ HoldsSecret(key)
  /\ key.key.renewals < MaxRenew
  /\ Start(p, "renew", "key", Renewed(key.key))
  /\ UNCHANGED <<files, card, made, secured>>

StartRotate(p) ==       \* a stub is refused; the old subkeys are kept
  /\ proc[p] = Idle /\ meta.st = "ok" /\ HoldsSecret(key)
  /\ made < MaxGen
  /\ made' = made + 1
  /\ Start(p, "rotate", "key", Rotated(key.key, made + 1))
  /\ UNCHANGED <<files, card, secured>>

StartProvision(p) ==    \* the backup check looks at the directory only
  /\ proc[p] = Idle /\ dir /\ HoldsSecret(key) /\ meta.st = "ok"
  /\ Start(p, "provision", "confirm", key.key)
  /\ UNCHANGED <<files, card, made, secured>>
-----------------------------------------------------------------------------
(* `key backup`: the directory, then five files in this order.             *)

\* Mutant: the metadata is stamped before the files are written.
MakeBackupDirStampFirst(p) ==
  /\ At(p, "mkdir")
  /\ dir' = TRUE
  /\ Goto(p, "load")
  /\ UNCHANGED <<key, meta, backup, card, made, secured>>

MakeBackupDir(p) ==
  /\ At(p, "mkdir")
  /\ dir' = TRUE
  /\ Goto(p, "certify")
  /\ UNCHANGED <<key, meta, backup, card, made, secured>>

After(f) ==
  CASE f = "certify"    -> "subkeys"
    [] f = "subkeys"    -> "public"
    [] f = "public"     -> "ownertrust"
    [] f = "ownertrust" -> "revocation"
    [] f = "revocation" -> "load"

\* Mutant: certify-key.asc gets the public key.
BackupContentsPublic(f, k) ==
  CASE f = "subkeys" -> {Ok(k)}
    [] f \in {"certify", "public"} -> {Ok(Public(k))}
    [] f = "ownertrust" -> {Ok(NoKey)}
    [] f = "revocation" -> {Placeholder} \cup (IF k.secret THEN {Ok(Public(k))} ELSE {})

\* A revocation certificate needs the certify key and its passphrase; without
\* them a placeholder is written and the backup goes on.
BackupContents(f, k) ==
  CASE f \in {"certify", "subkeys"} -> {Ok(k)}
    [] f = "public"     -> {Ok(Public(k))}
    [] f = "ownertrust" -> {Ok(NoKey)}
    [] f = "revocation" -> {Placeholder} \cup (IF k.secret THEN {Ok(Public(k))} ELSE {})

TruncBackup(p, f) ==
  /\ At(p, f) /\ dir
  /\ backup' = [backup EXCEPT ![f] = Torn]
  /\ Open(p)
  /\ UNCHANGED <<key, meta, dir, card, made, secured>>

FillBackup(p, f) ==
  /\ Writing(p, f)
  /\ \E new \in BackupContents(f, proc[p].key) :
       \E result \in Filled(backup[f], new, Torn) :
         backup' = [backup EXCEPT ![f] = result]
  /\ Goto(p, After(f))
  /\ UNCHANGED <<key, meta, dir, card, made, secured>>
-----------------------------------------------------------------------------
(* `card provision` between the summary and the local stub.                *)

\* The subkeys go to the card in the order of the key: the oldest generation first.
NextSubkey(g, rest) == g \in rest /\ \A h \in rest : g <= h

Confirm(p) ==           \* the owner typed 'yes'
  /\ At(p, "confirm")
  /\ proc' = [proc EXCEPT ![p].step = "import", ![p].rest = proc[p].key.gens]
  /\ UNCHANGED <<files, card, made, secured>>

\* Mutant: the newest generation is imported first.
ImportNewestFirst(p) ==
  /\ At(p, "import")
  /\ \E g \in proc[p].rest :
       /\ \A h \in proc[p].rest : g >= h
       /\ card' = [card EXCEPT ![proc[p].slot] = g]
       /\ proc' = [proc EXCEPT ![p].slot = IF @ = 3 THEN 1 ELSE @ + 1,
                               ![p].rest = IF proc[p].slot = 3 THEN @ \ {g} ELSE @]
  /\ UNCHANGED <<files, made, secured>>

\* Each subkey goes into the slot of its use: a later one overwrites it.
Import(p) ==
  /\ At(p, "import")
  /\ \E g \in Gens :
       /\ NextSubkey(g, proc[p].rest)
       /\ card' = [card EXCEPT ![proc[p].slot] = g]
       /\ proc' = [proc EXCEPT ![p].slot = IF @ = 3 THEN 1 ELSE @ + 1,
                               ![p].rest = IF proc[p].slot = 3 THEN @ \ {g} ELSE @]
  /\ UNCHANGED <<files, made, secured>>

ImportsDone(p) ==
  /\ At(p, "import") /\ proc[p].rest = {}
  /\ Goto(p, "check")
  /\ UNCHANGED <<files, card, made, secured>>

CheckSlots(p) ==        \* with an empty slot the command gives up: Abort
  /\ At(p, "check") /\ \A s \in Slots : card[s] # 0
  /\ proc' = [proc EXCEPT ![p].step = "key", ![p].key = Public(@)]
  /\ UNCHANGED <<files, card, made, secured>>
-----------------------------------------------------------------------------
(* The key file and the metadata.                                          *)

TruncKey(p) ==
  /\ At(p, "key")
  /\ key' = Torn
  /\ Open(p)
  /\ UNCHANGED <<meta, dir, backup, card, made, secured>>

FillKey(p) ==
  /\ Writing(p, "key")
  /\ key' \in Filled(key, Ok(proc[p].key), Torn)
  /\ IF proc[p].cmd = "create" THEN Finish(p) ELSE Goto(p, "load")
  /\ UNCHANGED <<meta, dir, backup, card, made, secured>>

StampOf(cmd) ==
  CASE cmd = "backup"    -> {"backed_up"}
    [] cmd = "provision" -> {"provisioned"}
    [] OTHER             -> {}

\* The stamps to save: the loaded ones and the command's own.  Only restore
\* makes new metadata when there is none.
LoadMeta(p) ==
  /\ At(p, "load")
  /\ \/ /\ meta.st = "ok"
        /\ proc' = [proc EXCEPT ![p].step = "meta",
                                ![p].stamps = meta.stamps \cup StampOf(proc[p].cmd)]
     \/ /\ meta.st = "absent" /\ proc[p].cmd = "restore"
        /\ proc' = [proc EXCEPT ![p].step = "meta", ![p].stamps = {"backed_up"}]
  /\ UNCHANGED <<files, card, made, secured>>

TruncMeta(p) ==
  /\ At(p, "meta")
  /\ meta' = TornMeta
  /\ Open(p)
  /\ UNCHANGED <<key, dir, backup, card, made, secured>>

FillMeta(p) ==
  /\ Writing(p, "meta")
  /\ meta' \in IF meta.st = "ok" THEN {Metadata(proc[p].stamps), TornMeta}
                                  ELSE {Metadata(proc[p].stamps)}
  /\ IF proc[p].cmd = "create" THEN Goto(p, "key") ELSE Finish(p)
  /\ secured' = IF proc[p].cmd = "backup" THEN secured \cup proc[p].key.gens
                                          ELSE secured
  /\ UNCHANGED <<key, dir, backup, card, made>>

\* The process ends before it is done: killed, refused at a prompt, a failed
\* read or write, a card error.
Abort(p) ==
  /\ proc[p] # Idle
  /\ Finish(p)
  /\ UNCHANGED <<files, card, made, secured>>

CardReset ==            \* `card reset`
  /\ card' = EmptyCard
  /\ UNCHANGED <<files, made, proc, secured>>
-----------------------------------------------------------------------------
Command(p) ==
  StartCreate(p) \/ StartBackup(p) \/ StartRestore(p) \/ StartRenew(p)
  \/ StartRotate(p) \/ StartProvision(p)

Step(p) ==
  \/ MakeBackupDir(p)
  \/ \E f \in BackupFiles : TruncBackup(p, f) \/ FillBackup(p, f)
  \/ Confirm(p) \/ Import(p) \/ ImportsDone(p) \/ CheckSlots(p)
  \/ TruncKey(p) \/ FillKey(p) \/ LoadMeta(p) \/ TruncMeta(p) \/ FillMeta(p)

\* Any commands, in any order, at the same time.
Next == CardReset \/ \E p \in Procs : Command(p) \/ Step(p) \/ Abort(p)

Spec == Init /\ [][Next]_vars

\* Nothing is killed, refused or fails.
SmoothSpec == Init /\ [][CardReset \/ \E p \in Procs : Command(p) \/ Step(p)]_vars

(***************************************************************************)
(* The owner who follows the documentation: one command at a time, except  *)
(* that backups may overlap; a backup is made while the key still has its  *)
(* secrets, a key is changed only once it is backed up, and provisioned    *)
(* only when the backup is up to date.  Any command may still die at any   *)
(* step.                                                                   *)
(***************************************************************************)
Alone == Busy = {}
SecretBackedUp == HoldsSecret(backup["certify"])

CarefulCommand(p) ==
  \/ StartBackup(p) /\ key.key.secret /\ \A q \in Busy : proc[q].cmd = "backup"
  \/ Alone /\ (StartCreate(p) \/ StartRestore(p))
  \/ Alone /\ SecretBackedUp /\ (StartRenew(p) \/ StartRotate(p))
  \/ /\ Alone /\ SecretBackedUp /\ key.key.gens \subseteq backup["certify"].key.gens
     /\ StartProvision(p)

CarefulNext ==
  (Alone /\ CardReset) \/ \E p \in Procs : CarefulCommand(p) \/ Step(p) \/ Abort(p)

CarefulSpec == Init /\ [][CarefulNext]_vars
-----------------------------------------------------------------------------
\* The type of every variable.
TypeOK ==
  /\ key \in KeyFiles
  /\ meta \in MetaFiles
  /\ dir \in BOOLEAN
  /\ backup \in [BackupFiles -> KeyFiles]
  /\ card \in [Slots -> 0..MaxGen]
  /\ made \in 0..MaxGen
  /\ proc \in [Procs -> Processes]
  /\ secured \in SUBSET Gens

\* Every generation a `key backup` reported as backed up can be used from the
\* key file or from certify-key.asc, whatever command dies in the middle of
\* truncating and filling the two (save_key_to_store, run_backup, run_restore).
SecuredNeverLost == secured \subseteq Usable(key) \/ secured \subseteq Usable(backup["certify"])

\* Once the key file is a card stub, certify-key.asc holds the secrets of every
\* subkey in it, and no later backup or restore takes them away.
StubIsBackedUp ==
  key.st = "ok" /\ ~key.key.secret
    => key.key.gens \subseteq Usable(backup["certify"])

\* When a provision turns the key file into a stub, every slot of the card holds
\* the newest generation of that key, although older generations were imported
\* first and earlier provisions may have died between two imports
\* (run_provision's import loop and its check of the slots).
StubStep ==
  (\E p \in Procs : proc[p].cmd = "provision" /\ Writing(p, "key"))
  /\ key'.st = "ok" /\ key' # key
    => \A s \in Slots : /\ card[s] \in key'.key.gens
                         /\ \A g \in key'.key.gens : g <= card[s]
NewestOnCard == [][StubStep]_vars

\* Metadata that says the key is backed up was written when certify-key.asc had
\* been written, and no command removes it again (run_backup, run_restore).
BackedUpMeansBackup ==
  meta.st = "ok" /\ "backed_up" \in meta.stamps
    => dir /\ backup["certify"].st # "absent"

(***************************************************************************)
(* Why a careful owner loses nothing, as an invariant that every step      *)
(* keeps.                                                                  *)
(***************************************************************************)
Running(p, cmds) == proc[p].cmd \in cmds

StepsOf(cmd) ==
  CASE cmd = "none"      -> {"idle"}
    [] cmd = "create"    -> {"meta", "key"}
    [] cmd = "backup"    -> BackupFiles \cup {"mkdir", "load", "meta"}
    [] cmd \in {"restore", "renew", "rotate"} -> {"key", "load", "meta"}
    [] cmd = "provision" -> {"confirm", "import", "check", "key", "load", "meta"}

\* A process is at a step of its command, and only backups overlap.
Shape ==
  \A p \in Procs : /\ proc[p].step \in StepsOf(proc[p].cmd)
                   /\ proc[p].cmd = "none" => proc[p] = Idle
Overlap ==
  \A p, q \in Procs : p # q /\ ~Running(p, {"none"}) /\ ~Running(q, {"none"})
    => Running(p, {"backup"}) /\ Running(q, {"backup"})

\* What is in the two stores.  Whenever certify-key.asc cannot be read, the
\* key file holds what is secured.
Stores ==
  LET c == backup["certify"] IN
  /\ HoldsSecret(key) => secured \subseteq key.key.gens
  /\ c.st = "ok" => c.key.secret /\ secured \subseteq c.key.gens
  /\ c.st # "ok" /\ secured # {} => HoldsSecret(key)
  /\ key.st = "ok" /\ ~key.key.secret => c.st = "ok" /\ key.key.gens \subseteq c.key.gens
  /\ made = 0 => secured = {} /\ key.st # "ok" /\ c.st # "ok"

\* What a running command may rely on: the key it holds in memory is still the
\* one in the store it loaded it from.
InMemory(p) ==
  LET c == backup["certify"]
      k == proc[p].key IN
  /\ Running(p, {"create"}) => secured = {} /\ made # 0 /\ k.secret
  /\ Running(p, {"backup"}) =>
       /\ HoldsSecret(key) /\ k = key.key
       /\ proc[p].step \notin {"mkdir", "certify"} /\ c.st = "ok" => c.key = k
  /\ Running(p, {"restore"}) => c.st = "ok" /\ (proc[p].step = "key" => k = c.key)
  /\ Running(p, {"renew", "rotate"}) =>
       c.st = "ok" /\ (proc[p].step = "key" => k.secret /\ secured \subseteq k.gens)
  /\ Running(p, {"provision"}) =>
       /\ c.st = "ok" /\ k.gens \subseteq c.key.gens
       /\ proc[p].step = "key" => ~k.secret

\* The inductive invariant behind SecuredNeverLost, StubIsBackedUp and
\* CustodyKept.
IInv == Shape /\ Overlap /\ Stores /\ \A p \in Procs : InMemory(p)

\* The inductive invariant behind BackedUpMeansBackup, for commands in any order:
\* whoever carries the "backed_up" stamp, or will add it, knows of the backup.
HasBackup == dir /\ backup["certify"].st # "absent"
KnowsBackup(p) ==
  /\ Running(p, {"backup"}) /\ proc[p].step # "mkdir" => dir
  /\ Running(p, {"backup"}) /\ proc[p].step \notin {"mkdir", "certify"} => HasBackup
  /\ Running(p, {"restore"}) => HasBackup
  /\ "backed_up" \in proc[p].stamps => HasBackup
BInv == ("backed_up" \in meta.stamps => HasBackup) /\ \A p \in Procs : KnowsBackup(p)

\* The inductive invariant behind NewestOnCard, next to IInv: how far a running
\* provision has got, slot by slot and generation by generation.
Newest(g, G) == g \in G /\ \A h \in G : h <= g
Born ==
  /\ key.st = "ok" => 1 \in key.key.gens
  /\ backup["certify"].st = "ok" => 1 \in backup["certify"].key.gens
  /\ \A p \in Procs : ~Running(p, {"none"}) => 1 \in proc[p].key.gens
Imported(slots, gens, rest, slot) ==
  LET done == gens \ rest IN
  /\ rest \subseteq gens /\ (slot # 1 => rest # {})
  /\ \A g \in done, h \in rest : g < h
  /\ \A s \in Slots :
       IF s < slot THEN NextSubkey(slots[s], rest) ELSE done # {} => Newest(slots[s], done)
OnCard(p) ==
  Running(p, {"provision"}) =>
    /\ proc[p].step = "import" => Imported(card, proc[p].key.gens, proc[p].rest, proc[p].slot)
    /\ proc[p].step \in {"check", "key"} => \A s \in Slots : Newest(card[s], proc[p].key.gens)
    /\ proc[p].step = "confirm" => proc[p].slot = 1
CInv == Born /\ \A p \in Procs : OnCard(p)

\* The promise KeyCustody states about secret key material.
Custody == INSTANCE KeyCustody WITH
  local <- Usable(key), vault <- Usable(backup["certify"])
CustodyKept == Custody!Spec
=============================================================================
