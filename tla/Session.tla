------------------------------ MODULE Session ------------------------------
(***************************************************************************)
(* kdub on Tails: a stick with persistent storage, the sessions that are   *)
(* booted from it, and `init`, `doctor` and `key create` in them.  The     *)
(* home directory is in memory and gone with the session; Tails links the  *)
(* files of dotfiles/ into it and mounts the directories that              *)
(* persistence.conf lists.  There is one session on another Linux, without *)
(* a stick, and it never ends.                                             *)
(***************************************************************************)
EXTENDS Naturals

CONSTANT Ids   \* identities

\* In the order in which `init` writes them.
Config == "config.toml"
Dirmngr == "dirmngr.conf"
GpgFiles == {"gpg.conf", "gpg-agent.conf", "scdaemon.conf"}
Order == <<Config, "gpg.conf", "gpg-agent.conf", "scdaemon.conf", Dirmngr>>
Files == GpgFiles \cup {Config, Dirmngr}
FileStates == {"absent", "torn", "ok", "edited"}

VARIABLES
  stick,     \* who made the storage, its features, and what it keeps
  session,   \* is there one, is the storage unlocked, its environment, was `init` done
  home,      \* in memory: directories, configuration files, identities
  cmd,       \* the running command
  report,    \* what `doctor` said last in this session
  made       \* identities created after `doctor` was content with the storage

vars == <<stick, session, home, cmd, report, made>>

\* Mutant: without the line for the data directory.
PersistenceConfNoData == {"dotfiles", "gnupg", "Persistent"}
\* TAILS_PERSISTENCE_CONF_ENTRIES.
PersistenceConf == {"dotfiles", "gnupg", "kdub", "Persistent"}

NoFiles == [meta |-> "absent", key |-> "absent"]
Blank == [i \in Ids |-> NoFiles]
Fresh == [dirs |-> {}, files |-> [f \in Files |-> "absent"], keys |-> Blank]
Off == [st |-> "off", env |-> {}, inited |-> FALSE]
Idle == [name |-> "idle"]
Silent == [persistent |-> FALSE, dirs |-> FALSE]

Init ==
  /\ stick = [by |-> "nobody", features |-> {}, config |-> "absent", keys |-> Blank]
  /\ session = Off
  /\ home = Fresh /\ cmd = Idle /\ report = Silent /\ made = {}
-----------------------------------------------------------------------------
(* Where things are.                                                       *)

\* KDUB_DATA_DIR stands for --data-dir, too.
Variables == {"KDUB_CONFIG_DIR", "XDG_CONFIG_HOME", "KDUB_DATA_DIR", "XDG_DATA_HOME"}

\* The first of the variables that is set names the directory.
ConfigDir(env) ==
  IF "KDUB_CONFIG_DIR" \in env THEN "KDUB_CONFIG_DIR"
  ELSE IF "XDG_CONFIG_HOME" \in env THEN "XDG_CONFIG_HOME" ELSE "~/.config"
DataDir(env) ==
  IF "KDUB_DATA_DIR" \in env THEN "KDUB_DATA_DIR"
  ELSE IF "XDG_DATA_HOME" \in env THEN "XDG_DATA_HOME" ELSE "~/.local/share"

\* Mutant: `init` does not know XDG_DATA_HOME.
InitDataDirPlain(env) ==
  IF "KDUB_DATA_DIR" \in env THEN "KDUB_DATA_DIR" ELSE "~/.local/share"
\* The commands each have code of their own for this.
InitDataDir(env) == DataDir(env)
DoctorDataDir(env) == DataDir(env)
ResolveDataDir(env) == DataDir(env)

\* The lines of /etc/os-release that kdub looks for.
OsRelease ==
  IF session.st = "linux" THEN {"VERSION_ID"} ELSE {"TAILS_PRODUCT_NAME", "VERSION_ID", "ID=tails"}
\* There are two ways to tell: one for `doctor`, and one for `init`, which makes a
\* directory for its state wherever there is use for one.
DetectTails == {"TAILS_PRODUCT_NAME", "VERSION_ID"} \subseteq OsRelease
DetectPlatform == IF "ID=tails" \in OsRelease THEN "tails" ELSE "linux"
StateDir == IF DetectPlatform = "tails" THEN {} ELSE {"~/.local/state"}

Mounted(feature) == session.st = "unlocked" /\ feature \in stick.features

OnStick(dir) == Mounted("kdub") /\ dir = "~/.local/share"
Exists(dir) == dir \in home.dirs \/ OnStick(dir)

StoreOnStick == OnStick(ResolveDataDir(session.env))
SetKey(i, file, st) ==
  IF StoreOnStick THEN stick' = [stick EXCEPT !.keys[i][file] = st] /\ UNCHANGED home
  ELSE /\ home' = [home EXCEPT !.keys[i][file] = st,
                               !.dirs = @ \cup {ResolveDataDir(session.env)}]
       /\ UNCHANGED stick

\* A file of dotfiles/ is linked from the home directory, and a write follows the link.
Linked(f) ==
  /\ f = Config /\ ConfigDir(session.env) = "~/.config"
  /\ Mounted("dotfiles") /\ stick.config # "absent"
FileState(f) == IF Linked(f) THEN stick.config ELSE home.files[f]
SetFile(f, st) ==
  IF Linked(f) THEN stick' = [stick EXCEPT !.config = st] /\ UNCHANGED home
  ELSE home' = [home EXCEPT !.files[f] = st] /\ UNCHANGED stick
-----------------------------------------------------------------------------
(* The stick and the sessions.                                             *)

\* `tails persist`, to its end, with or without --skip-preseed.
Persist ==
  /\ session = Off /\ stick.by = "nobody"
  /\ \E config \in {"absent", "ok"} :
       stick' = [stick EXCEPT !.by = "kdub", !.features = PersistenceConf, !.config = config]
  /\ UNCHANGED <<session, home, cmd, report, made>>

\* What Tails offers itself, which the README advises to owners of a Mac.
WelcomeScreen ==
  /\ session = Off /\ stick.by = "nobody"
  /\ stick' = [stick EXCEPT !.by = "Tails", !.features = {"gnupg", "Persistent"}]
  /\ UNCHANGED <<session, home, cmd, report, made>>

Boot ==
  /\ session = Off
  /\ \E st \in {"locked", "unlocked", "linux"}, env \in SUBSET Variables :
       /\ st = "unlocked" => stick.by # "nobody"
       /\ session' = [Off EXCEPT !.st = st, !.env = env]
  /\ UNCHANGED <<stick, home, cmd, report, made>>

\* At any moment: the stick is pulled out, or the computer is switched off.
Shutdown ==
  /\ session.st \in {"locked", "unlocked"}
  /\ session' = Off /\ home' = Fresh /\ cmd' = Idle /\ report' = Silent
  /\ UNCHANGED <<stick, made>>

\* A command is interrupted, or fails for want of room.
Abort ==
  /\ cmd # Idle
  /\ cmd' = Idle
  /\ UNCHANGED <<stick, session, home, report, made>>

EditConfig ==
  /\ session # Off /\ cmd = Idle /\ FileState(Config) # "absent"
  /\ SetFile(Config, "edited")
  /\ UNCHANGED <<session, cmd, report, made>>
-----------------------------------------------------------------------------
(* `init`: the directories, then one file after another.                   *)

\* Mutant: what is there is kept, whatever it is.
TodoKept(force, torProxy) ==
  {n \in DOMAIN Order : /\ force \/ FileState(Order[n]) = "absent"
                        /\ Order[n] = Dirmngr => torProxy}
\* config.toml is kept unless --force; the others are written anew every time.
Todo(force, torProxy) ==
  {n \in DOMAIN Order : /\ Order[n] = Config => force \/ FileState(Config) = "absent"
                        /\ Order[n] = Dirmngr => torProxy}

BeginInit ==
  /\ session # Off /\ cmd = Idle
  /\ home' = [home EXCEPT !.dirs =
                @ \cup {ConfigDir(session.env), InitDataDir(session.env)} \cup StateDir]
  /\ \E force, torProxy \in BOOLEAN :
       cmd' = [name |-> "init", force |-> force, tor |-> torProxy, found |-> FileState(Config),
               todo |-> Todo(force, torProxy), open |-> FALSE]
  /\ UNCHANGED <<stick, session, report, made>>

IsNext(n) == n \in cmd.todo /\ \A k \in cmd.todo : n <= k

TruncateFile ==
  /\ cmd.name = "init" /\ ~cmd.open
  /\ \E n \in DOMAIN Order : IsNext(n) /\ SetFile(Order[n], "torn")
  /\ cmd' = [cmd EXCEPT !.open = TRUE]
  /\ UNCHANGED <<session, report, made>>

FillFile ==
  /\ cmd.name = "init" /\ cmd.open
  /\ \E n \in DOMAIN Order :
       /\ IsNext(n) /\ SetFile(Order[n], "ok")
       /\ cmd' = [cmd EXCEPT !.open = FALSE, !.todo = @ \ {n}]
  /\ UNCHANGED <<session, report, made>>

InitDone ==
  /\ cmd.name = "init" /\ cmd.todo = {}
  /\ cmd' = Idle
  /\ session' = [session EXCEPT !.inited = TRUE]
  /\ UNCHANGED <<stick, home, report, made>>
-----------------------------------------------------------------------------
\* check_persistence_mounted asks whether the directory is there.
Doctor ==
  /\ session # Off /\ cmd = Idle
  /\ report' = [persistent |-> DetectTails /\ session.st = "unlocked",
                dirs |-> Exists(ConfigDir(session.env)) /\ Exists(DoctorDataDir(session.env))]
  /\ UNCHANGED <<stick, session, home, cmd, made>>
-----------------------------------------------------------------------------
(* `key create`: the metadata, and then the key.                           *)

\* Mutant: the key is saved at once.
BeginCreateKey(i) ==
  /\ session # Off /\ cmd = Idle
  /\ stick.keys[i] = NoFiles /\ home.keys[i] = NoFiles
  /\ cmd' = [name |-> "create", id |-> i, file |-> "key", open |-> FALSE]
  /\ UNCHANGED <<stick, session, home, report, made>>

\* A fingerprint is never made twice.
BeginCreate(i) ==
  /\ session # Off /\ cmd = Idle
  /\ stick.keys[i] = NoFiles /\ home.keys[i] = NoFiles
  /\ cmd' = [name |-> "create", id |-> i, file |-> "meta", open |-> FALSE]
  /\ UNCHANGED <<stick, session, home, report, made>>

TruncateKey ==
  /\ cmd.name = "create" /\ ~cmd.open
  /\ SetKey(cmd.id, cmd.file, "torn")
  /\ cmd' = [cmd EXCEPT !.open = TRUE]
  /\ UNCHANGED <<session, report, made>>

\* `doctor` was content with the storage, and no variable leads elsewhere.
Reassured == report.persistent /\ ResolveDataDir(session.env) = "~/.local/share"

FillKey ==
  /\ cmd.name = "create" /\ cmd.open
  /\ SetKey(cmd.id, cmd.file, "ok")
  /\ IF cmd.file = "meta"
     THEN cmd' = [cmd EXCEPT !.file = "key", !.open = FALSE] /\ UNCHANGED made
     ELSE cmd' = Idle /\ made' = IF Reassured THEN made \cup {cmd.id} ELSE made
  /\ UNCHANGED <<session, report>>
-----------------------------------------------------------------------------
Next ==
  \/ Persist \/ WelcomeScreen \/ Boot \/ Shutdown \/ Abort \/ EditConfig
  \/ BeginInit \/ TruncateFile \/ FillFile \/ InitDone
  \/ Doctor
  \/ \E i \in Ids : BeginCreate(i)
  \/ TruncateKey \/ FillKey

Spec == Init /\ [][Next]_vars
-----------------------------------------------------------------------------
KeyFiles == [meta : {"absent", "torn", "ok"}, key : {"absent", "torn", "ok"}]

\* The type of every variable; no key file, however a command or a session ends, is
\* there without its metadata.
TypeOK ==
  /\ stick.features \subseteq PersistenceConf /\ stick.config \in FileStates
  /\ session \in [st : {"off", "locked", "unlocked", "linux"}, env : SUBSET Variables, inited : BOOLEAN]
  /\ home.files \in [Files -> FileStates]
  /\ cmd.name \in {"idle", "init", "create"}
  /\ report \in [persistent : BOOLEAN, dirs : BOOLEAN]
  /\ made \subseteq Ids
  /\ \A keys \in {stick.keys, home.keys} :
       keys \in [Ids -> KeyFiles] /\ \A i \in Ids : keys[i].key # "absent" => keys[i].meta = "ok"

\* An identity that was created after `doctor` found the storage in order is on the
\* stick, and stays there over sessions with and without the storage unlocked, on a
\* stick that `tails persist` made ("Boot from USB, unlock persistence, kdub doctor,
\* kdub key create").
KeysStay ==
  stick.by = "kdub" => \A i \in made : stick.keys[i] = [meta |-> "ok", key |-> "ok"]

\* When `init` reports success every GnuPG file is whole, whatever a run that died has
\* left, and config.toml is as it was or, when it was not there or with --force, whole.
InitRepairs ==
  cmd.name = "init" /\ cmd.todo = {} =>
    /\ \A f \in GpgFiles \cup (IF cmd.tor THEN {Dirmngr} ELSE {}) : FileState(f) = "ok"
    /\ FileState(Config) = IF cmd.force \/ cmd.found = "absent" THEN "ok" ELSE cmd.found

\* After `init` has succeeded in a session, `doctor` finds both directories, whatever
\* variables are set: the commands agree where things are.
DoctorSeesInit ==
  [][report' # report /\ session.inited /\ session' = session =>
       report'.dirs]_vars
=============================================================================
