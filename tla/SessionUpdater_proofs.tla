------------------------ MODULE SessionUpdater_proofs ------------------------
(***************************************************************************)
(* Proofs about what happens before the commands that use a key and after  *)
(* them: a session and its files (Session, any identities) and the check   *)
(* for a newer kdub (Updater, any processes, releases and clock).          *)
(*                                                                         *)
(* The invariant of Session says of every running command what it has done *)
(* so far: of `init`, that the files which are not to do any more are      *)
(* whole; of `key create`, that the store it began with is still the one,  *)
(* and how far its two files have got.  That of Updater says what a        *)
(* process can know of the releases.                                       *)
(***************************************************************************)
EXTENDS Session, Updater, TLAPS

FileRecord == [Files -> FileStates]
KeyStore == [Ids -> KeyFiles]
Dirs == Variables \cup {"~/.config", "~/.local/share", "~/.local/state"}

InitCmd == [name : {"init"}, force : BOOLEAN, tor : BOOLEAN, found : FileStates,
            todo : SUBSET (1..5), open : BOOLEAN]
CreateCmd == [name : {"create"}, id : Ids, file : {"meta", "key"}, open : BOOLEAN]

\* The types.
Types ==
  /\ stick \in [by : {"nobody", "kdub", "Tails"}, features : SUBSET PersistenceConf,
                config : FileStates, keys : KeyStore]
  /\ session \in [st : {"off", "locked", "unlocked", "linux"}, env : SUBSET Variables,
                  inited : BOOLEAN]
  /\ home \in [dirs : SUBSET Dirs, files : FileRecord, keys : KeyStore]
  /\ cmd \in {Idle} \cup InitCmd \cup CreateCmd
  /\ report \in [persistent : BOOLEAN, dirs : BOOLEAN]
  /\ made \subseteq Ids

\* A session needs the stick that it is booted from, a command the session.
Sessions ==
  /\ session = Off => cmd = Idle
  /\ session.st = "unlocked" => stick.by # "nobody"
  /\ stick.by = "kdub" => stick.features = PersistenceConf
  /\ stick.by = "nobody" => made = {}
  /\ report.persistent => session.st = "unlocked"

\* `init` makes its directories first, and they stay for the session.
Directories ==
  session.inited \/ cmd.name = "init" =>
    {ConfigDir(session.env), DataDir(session.env)} \subseteq home.dirs

\* What is left to do of `init`, and what is done.
InitSoFar(n) ==
  /\ Order[n] \in GpgFiles => n \in cmd.todo \/ FileState(Order[n]) = "ok"
  /\ Order[n] = Dirmngr /\ cmd.tor => n \in cmd.todo \/ FileState(Order[n]) = "ok"
  /\ Order[n] = Config =>
       IF n \in cmd.todo THEN cmd.force \/ cmd.found = "absent"
       ELSE FileState(Config) = IF cmd.force \/ cmd.found = "absent" THEN "ok" ELSE cmd.found

\* A key file has its metadata.
Paired(keys) == \A i \in Ids : keys[i].key # "absent" => keys[i].meta = "ok"

\* How far `key create` has got, in the store it began with.
StoreNow == IF StoreOnStick THEN stick.keys ELSE home.keys
CreateSoFar ==
  /\ StoreNow[cmd.id] =
       IF cmd.file = "meta"
       THEN [meta |-> IF cmd.open THEN "torn" ELSE "absent", key |-> "absent"]
       ELSE [meta |-> "ok", key |-> IF cmd.open THEN "torn" ELSE "absent"]
  /\ stick.by = "kdub" => cmd.id \notin made

SInv ==
  /\ Types /\ Sessions /\ Directories
  /\ Paired(stick.keys) /\ Paired(home.keys)
  /\ KeysStay
  /\ cmd.name = "init" => \A n \in 1..5 : InitSoFar(n)
  /\ cmd.name = "create" => CreateSoFar
-----------------------------------------------------------------------------
(* The operators.                                                          *)

\* The five files of `init`.
LEMMA OrderIs ==
  /\ DOMAIN Order = 1..5
  /\ Order[1] = Config /\ Order[2] = "gpg.conf" /\ Order[3] = "gpg-agent.conf"
  /\ Order[4] = "scdaemon.conf" /\ Order[5] = Dirmngr
  /\ \A n \in 1..5 : Order[n] \in Files
BY DEF Order, Files, GpgFiles, Config, Dirmngr

\* Every directory has a name.
LEMMA DirsAre ==
  ASSUME Types
  PROVE  /\ ConfigDir(session.env) \in Dirs /\ DataDir(session.env) \in Dirs
         /\ StateDir \subseteq Dirs
BY DEF ConfigDir, DataDir, StateDir, Dirs, Variables

\* No command is idle, and the two are different.
LEMMA Commands ==
  ASSUME Types
  PROVE  /\ cmd.name = "init" => cmd \in InitCmd
         /\ cmd.name = "create" => cmd \in CreateCmd
         /\ cmd.name \in {"idle", "init", "create"}
         /\ cmd = Idle => cmd.name = "idle"
BY DEF Types, Idle, InitCmd, CreateCmd

\* Writing a file: only that file changes, and where it is found does not.
LEMMA FileSet ==
  ASSUME Types, NEW f \in Files, NEW st \in {"torn", "ok", "edited"}, SetFile(f, st),
         session' = session
  PROVE  /\ stick' \in [by : {"nobody", "kdub", "Tails"}, features : SUBSET PersistenceConf,
                        config : FileStates, keys : KeyStore]
         /\ home' \in [dirs : SUBSET Dirs, files : FileRecord, keys : KeyStore]
         /\ stick'.by = stick.by /\ stick'.features = stick.features /\ stick'.keys = stick.keys
         /\ home'.dirs = home.dirs /\ home'.keys = home.keys
         /\ \A g \in Files : FileState(g)' = IF g = f THEN st ELSE FileState(g)
<1>1. st \in FileStates
  BY DEF FileStates
<1>2. CASE Linked(f)
  <2>1. stick' = [stick EXCEPT !.config = st] /\ home' = home /\ f = Config
    BY <1>2 DEF SetFile, Linked
  <2>2. /\ stick' \in [by : {"nobody", "kdub", "Tails"}, features : SUBSET PersistenceConf,
                       config : FileStates, keys : KeyStore]
        /\ stick'.by = stick.by /\ stick'.features = stick.features /\ stick'.keys = stick.keys
        /\ stick'.config = st
    BY <1>1, <2>1 DEF Types
  <2>3. Linked(f)'
    BY <1>2, <2>1, <2>2 DEF Linked, Mounted
  <2>4. \A g \in Files : g # f => ~Linked(g) /\ ~Linked(g)'
    BY <2>1 DEF Linked
  <2> QED BY <1>2, <2>1, <2>2, <2>3, <2>4 DEF FileState, Types
<1>3. CASE ~Linked(f)
  <2>1. home' = [home EXCEPT !.files[f] = st] /\ stick' = stick
    BY <1>3 DEF SetFile
  <2>2. /\ home' \in [dirs : SUBSET Dirs, files : FileRecord, keys : KeyStore]
        /\ home'.dirs = home.dirs /\ home'.keys = home.keys
        /\ \A g \in Files : home'.files[g] = IF g = f THEN st ELSE home.files[g]
    BY <1>1, <2>1 DEF Types, FileRecord
  <2>3. \A g \in Files : Linked(g)' = Linked(g)
    BY <2>1 DEF Linked, Mounted
  <2> QED BY <1>3, <2>1, <2>2, <2>3 DEF FileState, Types
<1> QED BY <1>2, <1>3

\* Writing a file of an identity: only that file changes, in the store of the session.
LEMMA KeySet ==
  ASSUME Types, NEW i \in Ids, NEW file \in {"meta", "key"}, NEW st \in {"torn", "ok"},
         SetKey(i, file, st), session' = session
  PROVE  /\ stick' \in [by : {"nobody", "kdub", "Tails"}, features : SUBSET PersistenceConf,
                        config : FileStates, keys : KeyStore]
         /\ home' \in [dirs : SUBSET Dirs, files : FileRecord, keys : KeyStore]
         /\ stick'.by = stick.by /\ stick'.features = stick.features
         /\ home.dirs \subseteq home'.dirs
         /\ StoreNow'[i] = [StoreNow[i] EXCEPT ![file] = st]
         /\ \A j \in Ids : j # i => stick'.keys[j] = stick.keys[j] /\ home'.keys[j] = home.keys[j]
         /\ StoreOnStick => home'.keys = home.keys
         /\ ~StoreOnStick => stick'.keys = stick.keys
         /\ StoreOnStick' <=> StoreOnStick
<1>1. \A k \in KeyFiles : [k EXCEPT ![file] = st] \in KeyFiles
  <2>1. CASE file = "meta"
    BY <2>1 DEF KeyFiles
  <2>2. CASE file = "key"
    BY <2>2 DEF KeyFiles
  <2> QED BY <2>1, <2>2
<1>2. StoreOnStick' = (Mounted("kdub")' /\ ResolveDataDir(session.env) = "~/.local/share")
  BY DEF StoreOnStick, OnStick
<1>3. CASE StoreOnStick
  <2>1. stick' = [stick EXCEPT !.keys[i][file] = st] /\ home' = home
    BY <1>3 DEF SetKey
  <2>2. /\ stick' \in [by : {"nobody", "kdub", "Tails"}, features : SUBSET PersistenceConf,
                       config : FileStates, keys : KeyStore]
        /\ stick'.by = stick.by /\ stick'.features = stick.features
        /\ stick'.keys[i] = [stick.keys[i] EXCEPT ![file] = st]
        /\ \A j \in Ids : j # i => stick'.keys[j] = stick.keys[j]
    BY <1>1, <2>1 DEF Types, KeyStore
  <2>3. StoreOnStick'
    BY <1>3, <2>2 DEF StoreOnStick, OnStick, Mounted
  <2> QED BY <1>3, <2>1, <2>2, <2>3 DEF StoreNow, Types
<1>4. CASE ~StoreOnStick
  <2> DEFINE new == home.dirs \cup {ResolveDataDir(session.env)}
  <2>1. /\ home' = [home EXCEPT !.keys[i][file] = st, !.dirs = new]
        /\ stick' = stick
    BY <1>4 DEF SetKey
  <2>2. new \in SUBSET Dirs
    BY DirsAre DEF Types, ResolveDataDir
  <2> HIDE DEF new
  <2>3. /\ home' \in [dirs : SUBSET Dirs, files : FileRecord, keys : KeyStore]
        /\ home'.dirs = new
        /\ home'.keys[i] = [home.keys[i] EXCEPT ![file] = st]
        /\ \A j \in Ids : j # i => home'.keys[j] = home.keys[j]
    BY <1>1, <2>1, <2>2 DEF Types, KeyStore
  <2>4. home.dirs \subseteq home'.dirs
    BY <2>3 DEF new
  <2>5. ~StoreOnStick'
    BY <1>4, <2>1 DEF StoreOnStick, OnStick, Mounted
  <2>6. StoreNow = home.keys /\ StoreNow' = home'.keys
    BY <1>4, <2>5 DEF StoreNow
  <2>7. stick' \in [by : {"nobody", "kdub", "Tails"}, features : SUBSET PersistenceConf,
                    config : FileStates, keys : KeyStore]
    BY <2>1 DEF Types
  <2> QED BY <1>4, <2>1, <2>3, <2>4, <2>5, <2>6, <2>7
<1> QED BY <1>3, <1>4
-----------------------------------------------------------------------------
(* The steps.                                                              *)

\* At first there is nothing.
LEMMA SInit == Init => SInv
<1> SUFFICES ASSUME Init PROVE SInv
  OBVIOUS
<1>1. Types
  BY DEF Init, Types, Off, Fresh, Idle, Silent, FileRecord, FileStates, KeyStore, Blank,
         NoFiles, KeyFiles
<1>2. Sessions /\ Directories /\ KeysStay
  BY DEF Init, Sessions, Directories, KeysStay, Off, Idle, Silent
<1>3. Paired(stick.keys) /\ Paired(home.keys)
  BY DEF Init, Paired, Fresh, Blank, NoFiles
<1> QED BY <1>1, <1>2, <1>3 DEF SInv, Init, Idle

\* Between commands there is less to say.
LEMMA WhenIdle ==
  ASSUME Types', Sessions', Directories', Paired(stick.keys)', Paired(home.keys)', KeysStay',
         cmd' = Idle
  PROVE  SInv'
BY Commands DEF SInv, Idle

\* Storage is made when there is no session.
LEMMA StorageStep == ASSUME SInv, Persist \/ WelcomeScreen PROVE SInv'
<1>1. /\ session = Off /\ cmd = Idle /\ stick.by = "nobody" /\ made = {}
      /\ UNCHANGED <<session, home, cmd, report, made>>
  BY DEF SInv, Sessions, Persist, WelcomeScreen
<1>2. /\ stick' \in [by : {"kdub", "Tails"}, features : SUBSET PersistenceConf,
                      config : FileStates, keys : KeyStore]
      /\ stick'.keys = stick.keys
      /\ stick'.by = "kdub" => stick'.features = PersistenceConf
  <2>1. CASE Persist
    <3>1. PICK config \in {"absent", "ok"} :
            stick' = [stick EXCEPT !.by = "kdub", !.features = PersistenceConf, !.config = config]
      BY <2>1 DEF Persist
    <3> QED BY <3>1 DEF SInv, Types, FileStates
  <2>2. CASE WelcomeScreen
    <3>1. {"gnupg", "Persistent"} \subseteq PersistenceConf
      BY DEF PersistenceConf
    <3> QED BY <2>2, <3>1 DEF WelcomeScreen, SInv, Types
  <2> QED BY <2>1, <2>2
<1>3. Types'
  BY <1>1, <1>2 DEF SInv, Types
<1>4. Sessions' /\ KeysStay' /\ Directories'
  BY <1>1, <1>2 DEF SInv, Sessions, KeysStay, Directories, Off
<1>5. Paired(stick.keys)' /\ Paired(home.keys)'
  BY <1>1, <1>2 DEF SInv, Paired
<1> QED BY <1>1, <1>3, <1>4, <1>5, WhenIdle

\* A session begins without a command.
LEMMA BootStep == ASSUME SInv, Boot PROVE SInv'
<1>1. session = Off /\ cmd = Idle /\ UNCHANGED <<stick, home, cmd, report, made>>
  BY DEF SInv, Sessions, Boot
<1>2. PICK st \in {"locked", "unlocked", "linux"}, env \in SUBSET Variables :
        /\ st = "unlocked" => stick.by # "nobody"
        /\ session' = [st |-> st, env |-> env, inited |-> FALSE]
  BY DEF Boot, Off
<1>3. Types'
  BY <1>1, <1>2 DEF SInv, Types
<1>4. ~report.persistent
  BY <1>1 DEF SInv, Sessions, Off
<1>5. Sessions' /\ KeysStay' /\ Directories'
  BY <1>1, <1>2, <1>4 DEF SInv, Sessions, KeysStay, Directories, Idle
<1>6. Paired(stick.keys)' /\ Paired(home.keys)'
  BY <1>1 DEF SInv, Paired
<1> QED BY <1>1, <1>3, <1>5, <1>6, WhenIdle

\* What is in memory goes with the session, and nothing else.
LEMMA ShutdownStep == ASSUME SInv, Shutdown PROVE SInv'
<1>1. /\ session' = Off /\ home' = Fresh /\ cmd' = Idle /\ report' = Silent
      /\ UNCHANGED <<stick, made>>
  BY DEF Shutdown
<1>2. Types'
  BY <1>1 DEF SInv, Types, Off, Fresh, Idle, Silent, FileRecord, FileStates, KeyStore, Blank,
              NoFiles, KeyFiles
<1>3. Sessions' /\ KeysStay' /\ Directories'
  BY <1>1 DEF SInv, Sessions, KeysStay, Directories, Off, Idle, Silent
<1>4. Paired(stick.keys)'
  BY <1>1 DEF SInv, Paired
<1>5. Paired(home.keys)'
  BY <1>1 DEF Paired, Fresh, Blank, NoFiles
<1> QED BY <1>1, <1>2, <1>3, <1>4, <1>5, WhenIdle

\* A command that stops leaves what it has done.
LEMMA AbortStep == ASSUME SInv, Abort PROVE SInv'
<1>1. cmd' = Idle /\ UNCHANGED <<stick, session, home, report, made>>
  BY DEF Abort
<1>2. Types' /\ Sessions'
  BY <1>1 DEF SInv, Types, Sessions
<1>3. KeysStay' /\ Directories' /\ Paired(stick.keys)' /\ Paired(home.keys)'
  BY <1>1 DEF SInv, KeysStay, Directories, Paired, Idle
<1> QED BY <1>1, <1>2, <1>3, WhenIdle

\* An editor writes one file.
LEMMA EditStep == ASSUME SInv, EditConfig PROVE SInv'
<1>1. cmd = Idle /\ SetFile(Config, "edited") /\ UNCHANGED <<session, cmd, report, made>>
  BY DEF EditConfig
<1>2. Config \in Files
  BY DEF Files
<1>3. /\ stick' \in [by : {"nobody", "kdub", "Tails"}, features : SUBSET PersistenceConf,
                      config : FileStates, keys : KeyStore]
      /\ home' \in [dirs : SUBSET Dirs, files : FileRecord, keys : KeyStore]
      /\ stick'.by = stick.by /\ stick'.features = stick.features /\ stick'.keys = stick.keys
      /\ home'.dirs = home.dirs /\ home'.keys = home.keys
  BY <1>1, <1>2, FileSet DEF SInv
<1>4. Types'
  BY <1>1, <1>3 DEF SInv, Types
<1>5. Sessions' /\ KeysStay' /\ Directories' /\ Paired(stick.keys)' /\ Paired(home.keys)'
  BY <1>1, <1>3 DEF SInv, Sessions, KeysStay, Directories, Paired
<1> QED BY <1>1, <1>4, <1>5, WhenIdle

\* `doctor` only reads.
LEMMA DoctorStep == ASSUME SInv, Doctor PROVE SInv'
<1>1. cmd = Idle /\ UNCHANGED <<stick, session, home, cmd, made>>
  BY DEF Doctor
<1>2. /\ report' \in [persistent : BOOLEAN, dirs : BOOLEAN]
      /\ report'.persistent => session.st = "unlocked"
  BY DEF Doctor, DetectTails, Exists, OnStick, Mounted, SInv, Types
<1>3. Types' /\ Sessions'
  BY <1>1, <1>2 DEF SInv, Types, Sessions
<1>4. KeysStay' /\ Directories' /\ Paired(stick.keys)' /\ Paired(home.keys)'
  BY <1>1 DEF SInv, KeysStay, Directories, Paired
<1> QED BY <1>1, <1>3, <1>4, WhenIdle

\* The directories are made, and nothing is done yet.
LEMMA BeginInitStep == ASSUME SInv, BeginInit PROVE SInv'
<1>1. PICK force \in BOOLEAN, torProxy \in BOOLEAN :
        cmd' = [name |-> "init", force |-> force, tor |-> torProxy, found |-> FileState(Config),
                todo |-> Todo(force, torProxy), open |-> FALSE]
  BY DEF BeginInit
<1> DEFINE new == home.dirs \cup {ConfigDir(session.env), InitDataDir(session.env)} \cup StateDir
<1>2. /\ session # Off /\ home' = [home EXCEPT !.dirs = new]
      /\ UNCHANGED <<stick, session, report, made>>
  BY DEF BeginInit
<1>3. /\ new \in SUBSET Dirs
      /\ {ConfigDir(session.env), DataDir(session.env)} \subseteq new
  BY DirsAre DEF SInv, Types, InitDataDir
<1> HIDE DEF new
<1>4. /\ home' \in [dirs : SUBSET Dirs, files : FileRecord, keys : KeyStore]
      /\ home'.dirs = new /\ home'.files = home.files /\ home'.keys = home.keys
  BY <1>2, <1>3 DEF SInv, Types
<1>5. \A f \in Files : FileState(f)' = FileState(f) /\ FileState(f) \in FileStates
  BY <1>2, <1>4 DEF FileState, Linked, Mounted, SInv, Types, FileRecord
<1>6. Todo(force, torProxy) \in SUBSET (1..5)
  BY OrderIs DEF Todo
<1>7. cmd' \in InitCmd
  BY <1>1, <1>5, <1>6 DEF InitCmd, Files
<1>8. Types'
  BY <1>2, <1>4, <1>7 DEF SInv, Types
<1>9. cmd'.name = "init" /\ cmd' # Idle
  BY <1>1 DEF Idle
<1>10. Sessions' /\ KeysStay' /\ Paired(stick.keys)' /\ Paired(home.keys)'
  BY <1>2, <1>4 DEF SInv, Sessions, KeysStay, Paired
<1>11. Directories'
  BY <1>2, <1>3, <1>4 DEF Directories
<1>12. ASSUME NEW n \in 1..5 PROVE InitSoFar(n)'
  <2>1. Order[n] \in Files /\ FileState(Order[n])' = FileState(Order[n])
        /\ FileState(Config)' = FileState(Config)
    BY <1>5, OrderIs DEF Files
  <2>2. /\ cmd'.todo = Todo(force, torProxy) /\ cmd'.force = force /\ cmd'.tor = torProxy
        /\ cmd'.found = FileState(Config)
    BY <1>1
  <2>3. Order[n] \in GpgFiles => n \in cmd'.todo
    BY <2>2, OrderIs DEF Todo, GpgFiles, Config, Dirmngr
  <2>4. Order[n] = Dirmngr /\ cmd'.tor => n \in cmd'.todo
    BY <2>2, OrderIs DEF Todo, Config, Dirmngr
  <2>5. Order[n] = Config => (n \in cmd'.todo <=> cmd'.force \/ cmd'.found = "absent")
    BY <2>2, OrderIs DEF Todo, Config, Dirmngr
  <2> QED BY <2>1, <2>2, <2>3, <2>4, <2>5 DEF InitSoFar
<1> QED BY <1>8, <1>9, <1>10, <1>11, <1>12 DEF SInv

\* What a write of `init` leaves alone.
LEMMA WritesOneFile ==
  ASSUME SInv, cmd.name = "init", NEW n \in 1..5, NEW st \in {"torn", "ok"},
         SetFile(Order[n], st), NEW todo \in SUBSET (1..5), NEW open \in BOOLEAN,
         cmd' = [cmd EXCEPT !.open = open, !.todo = todo],
         n \in todo \/ st = "ok", n \in cmd.todo, todo \subseteq cmd.todo,
         \A k \in cmd.todo : k # n => k \in todo,
         UNCHANGED <<session, report, made>>
  PROVE  SInv'
<1>1. cmd \in InitCmd /\ Order[n] \in Files
  BY Commands, OrderIs DEF SInv
<1>2. cmd' \in InitCmd /\ cmd'.name = "init" /\ cmd'.force = cmd.force /\ cmd'.tor = cmd.tor
      /\ cmd'.found = cmd.found /\ cmd'.todo = todo
  BY <1>1 DEF InitCmd
<1>3. /\ stick' \in [by : {"nobody", "kdub", "Tails"}, features : SUBSET PersistenceConf,
                      config : FileStates, keys : KeyStore]
      /\ home' \in [dirs : SUBSET Dirs, files : FileRecord, keys : KeyStore]
      /\ stick'.by = stick.by /\ stick'.features = stick.features /\ stick'.keys = stick.keys
      /\ home'.dirs = home.dirs /\ home'.keys = home.keys
      /\ \A g \in Files : FileState(g)' = IF g = Order[n] THEN st ELSE FileState(g)
  BY <1>1, FileSet DEF SInv
<1>4. Types'
  BY <1>2, <1>3 DEF SInv, Types
<1>5. session # Off
  BY Commands DEF SInv, Sessions
<1>6. Sessions' /\ KeysStay' /\ Directories' /\ Paired(stick.keys)' /\ Paired(home.keys)'
  BY <1>2, <1>3, <1>5 DEF SInv, Sessions, KeysStay, Directories, Paired
<1>7. ASSUME NEW m \in 1..5 PROVE InitSoFar(m)'
  <2>1. InitSoFar(m) /\ InitSoFar(n)
    BY DEF SInv
  <2>2. Order[m] = Order[n] => m = n
    BY OrderIs DEF Config, Dirmngr
  <2>3. Order[m] \in Files /\ (Order[m] = Config => FileState(Config)' = FileState(Order[m])')
    BY OrderIs
  <2>4. CASE m = n
    <3>1. FileState(Order[m])' = st
      BY <1>1, <1>3, <2>4
    <3>2. m \in cmd.todo /\ (m \in todo \/ st = "ok")
      BY <2>4
    <3> QED BY <1>2, <2>1, <2>3, <3>1, <3>2 DEF InitSoFar
  <2>5. CASE m # n
    <3>1. FileState(Order[m])' = FileState(Order[m])
      BY <1>3, <2>2, <2>3, <2>5
    <3>2. m \in todo <=> m \in cmd.todo
      BY <2>5
    <3> QED BY <1>2, <2>1, <2>3, <3>1, <3>2 DEF InitSoFar
  <2> QED BY <2>4, <2>5
<1> QED BY <1>2, <1>4, <1>6, <1>7 DEF SInv

\* A file that is open is still to be written.
LEMMA TruncateFileStep == ASSUME SInv, TruncateFile PROVE SInv'
<1>1. PICK n \in DOMAIN Order : IsNext(n) /\ SetFile(Order[n], "torn")
  BY DEF TruncateFile
<1>2. /\ cmd.name = "init" /\ cmd' = [cmd EXCEPT !.open = TRUE]
      /\ UNCHANGED <<session, report, made>>
  BY DEF TruncateFile
<1>3. cmd \in InitCmd /\ n \in 1..5 /\ n \in cmd.todo
  BY <1>1, <1>2, Commands, OrderIs DEF SInv, IsNext
<1>4. cmd' = [cmd EXCEPT !.open = TRUE, !.todo = cmd.todo] /\ cmd.todo \in SUBSET (1..5)
  BY <1>2, <1>3 DEF InitCmd
<1> QED BY <1>1, <1>2, <1>3, <1>4, WritesOneFile

\* A file that is written is whole.
LEMMA FillFileStep == ASSUME SInv, FillFile PROVE SInv'
<1>1. PICK n \in DOMAIN Order :
        /\ IsNext(n) /\ SetFile(Order[n], "ok")
        /\ cmd' = [cmd EXCEPT !.open = FALSE, !.todo = cmd.todo \ {n}]
  BY DEF FillFile
<1>2. cmd.name = "init" /\ UNCHANGED <<session, report, made>>
  BY DEF FillFile
<1>3. cmd \in InitCmd /\ n \in 1..5 /\ n \in cmd.todo
  BY <1>1, <1>2, Commands, OrderIs DEF SInv, IsNext
<1>4. cmd.todo \ {n} \in SUBSET (1..5)
  BY <1>3 DEF InitCmd
<1> QED BY <1>1, <1>2, <1>3, <1>4, WritesOneFile

\* The session remembers that there are directories.
LEMMA InitDoneStep == ASSUME SInv, InitDone PROVE SInv'
<1>1. /\ cmd.name = "init" /\ cmd' = Idle /\ session' = [session EXCEPT !.inited = TRUE]
      /\ UNCHANGED <<stick, home, report, made>>
  BY DEF InitDone
<1>2. /\ session'.st = session.st /\ session'.env = session.env
      /\ session' \in [st : {"off", "locked", "unlocked", "linux"}, env : SUBSET Variables,
                        inited : BOOLEAN]
  BY <1>1 DEF SInv, Types
<1>3. Types'
  BY <1>1, <1>2 DEF SInv, Types
<1>4. Sessions' /\ KeysStay' /\ Directories' /\ Paired(stick.keys)' /\ Paired(home.keys)'
  BY <1>1, <1>2 DEF SInv, Sessions, KeysStay, Directories, Paired
<1> QED BY <1>1, <1>3, <1>4, WhenIdle

\* A new identity has no files in either store.
LEMMA BeginCreateStep == ASSUME SInv, NEW i \in Ids, BeginCreate(i) PROVE SInv'
<1>1. /\ session # Off /\ stick.keys[i] = NoFiles /\ home.keys[i] = NoFiles
      /\ cmd' = [name |-> "create", id |-> i, file |-> "meta", open |-> FALSE]
      /\ UNCHANGED <<stick, session, home, report, made>>
  BY DEF BeginCreate
<1>2. cmd' \in CreateCmd /\ cmd'.name = "create" /\ cmd'.id = i /\ cmd'.file = "meta"
      /\ cmd'.open = FALSE
  BY <1>1 DEF CreateCmd
<1>3. Types'
  BY <1>1, <1>2 DEF SInv, Types
<1>4. Sessions' /\ KeysStay' /\ Paired(stick.keys)' /\ Paired(home.keys)'
  BY <1>1 DEF SInv, Sessions, KeysStay, Paired
<1>5. Directories'
  BY <1>1, <1>2 DEF SInv, Directories
<1>6. CreateSoFar'
  <2>1. StoreNow'[i] = NoFiles
    BY <1>1 DEF StoreNow, StoreOnStick, OnStick, Mounted
  <2>2. stick.by = "kdub" => i \notin made
    BY <1>1 DEF SInv, KeysStay, NoFiles
  <2>3. NoFiles = [meta |-> "absent", key |-> "absent"]
    BY DEF NoFiles
  <2> QED BY <1>1, <1>2, <2>1, <2>2, <2>3 DEF CreateSoFar
<1> QED BY <1>2, <1>3, <1>4, <1>5, <1>6 DEF SInv

\* What a write of `key create` does to the two stores.
LEMMA KeyWritten ==
  ASSUME SInv, cmd.name = "create", NEW st \in {"torn", "ok"}, SetKey(cmd.id, cmd.file, st),
         session' = session
  PROVE  /\ stick' \in [by : {"nobody", "kdub", "Tails"}, features : SUBSET PersistenceConf,
                        config : FileStates, keys : KeyStore]
         /\ home' \in [dirs : SUBSET Dirs, files : FileRecord, keys : KeyStore]
         /\ stick'.by = stick.by /\ stick'.features = stick.features
         /\ home.dirs \subseteq home'.dirs
         /\ \A j \in Ids : j # cmd.id => stick'.keys[j] = stick.keys[j]
         /\ Paired(stick.keys)' /\ Paired(home.keys)'
         /\ StoreNow'[cmd.id] = IF cmd.file = "meta" THEN [meta |-> st, key |-> "absent"]
                                ELSE [meta |-> "ok", key |-> st]
         /\ StoreOnStick' <=> StoreOnStick
<1>1. cmd \in CreateCmd /\ CreateSoFar /\ Types
  BY Commands DEF SInv
<1>2. cmd.id \in Ids /\ cmd.file \in {"meta", "key"}
  BY <1>1 DEF CreateCmd
<1>3. /\ stick' \in [by : {"nobody", "kdub", "Tails"}, features : SUBSET PersistenceConf,
                      config : FileStates, keys : KeyStore]
      /\ home' \in [dirs : SUBSET Dirs, files : FileRecord, keys : KeyStore]
      /\ stick'.by = stick.by /\ stick'.features = stick.features
      /\ home.dirs \subseteq home'.dirs
      /\ StoreNow'[cmd.id] = [StoreNow[cmd.id] EXCEPT ![cmd.file] = st]
      /\ \A j \in Ids : j # cmd.id => stick'.keys[j] = stick.keys[j] /\ home'.keys[j] = home.keys[j]
      /\ StoreOnStick => home'.keys = home.keys
      /\ ~StoreOnStick => stick'.keys = stick.keys
      /\ StoreOnStick' <=> StoreOnStick
  BY <1>1, <1>2, KeySet
<1>4. StoreNow'[cmd.id] = IF cmd.file = "meta" THEN [meta |-> st, key |-> "absent"]
                         ELSE [meta |-> "ok", key |-> st]
  <2>1. CASE cmd.file = "meta"
    <3>1. \E old \in {"torn", "absent"} : StoreNow[cmd.id] = [meta |-> old, key |-> "absent"]
      BY <1>1, <2>1 DEF CreateSoFar
    <3> QED BY <1>3, <2>1, <3>1
  <2>2. CASE cmd.file = "key"
    <3>1. \E old \in {"torn", "absent"} : StoreNow[cmd.id] = [meta |-> "ok", key |-> old]
      BY <1>1, <2>2 DEF CreateSoFar
    <3> QED BY <1>3, <2>2, <3>1
  <2> QED BY <1>2, <2>1, <2>2
<1>5. StoreNow'[cmd.id].key # "absent" => StoreNow'[cmd.id].meta = "ok"
  BY <1>4
<1>6. /\ StoreOnStick => StoreNow' = stick'.keys
      /\ ~StoreOnStick => StoreNow' = home'.keys
  BY <1>3 DEF StoreNow
<1>7. \A j \in Ids : j # cmd.id =>
        /\ stick'.keys[j].key # "absent" => stick'.keys[j].meta = "ok"
        /\ home'.keys[j].key # "absent" => home'.keys[j].meta = "ok"
  BY <1>3 DEF SInv, Paired
<1>8. Paired(stick.keys)'
  <2>1. CASE StoreOnStick
    <3>1. stick'.keys[cmd.id].key # "absent" => stick'.keys[cmd.id].meta = "ok"
      BY <1>5, <1>6, <2>1
    <3> QED BY <1>7, <3>1 DEF Paired
  <2>2. CASE ~StoreOnStick
    <3>1. stick'.keys = stick.keys /\ Paired(stick.keys)
      BY <1>3, <2>2 DEF SInv
    <3> QED BY <3>1 DEF Paired
  <2> QED BY <2>1, <2>2
<1>9. Paired(home.keys)'
  <2>1. CASE ~StoreOnStick
    <3>1. home'.keys[cmd.id].key # "absent" => home'.keys[cmd.id].meta = "ok"
      BY <1>5, <1>6, <2>1
    <3> QED BY <1>7, <3>1 DEF Paired
  <2>2. CASE StoreOnStick
    <3>1. home'.keys = home.keys /\ Paired(home.keys)
      BY <1>3, <2>2 DEF SInv
    <3> QED BY <3>1 DEF Paired
  <2> QED BY <2>1, <2>2
<1> QED BY <1>3, <1>4, <1>8, <1>9

\* A file that is open is torn.
LEMMA TruncateKeyStep == ASSUME SInv, TruncateKey PROVE SInv'
<1>1. /\ cmd.name = "create" /\ SetKey(cmd.id, cmd.file, "torn")
      /\ cmd' = [cmd EXCEPT !.open = TRUE] /\ UNCHANGED <<session, report, made>>
  BY DEF TruncateKey
<1>2. cmd \in CreateCmd /\ CreateSoFar /\ cmd # Idle
  BY <1>1, Commands DEF SInv
<1>3. /\ cmd' \in CreateCmd /\ cmd'.name = "create" /\ cmd'.id = cmd.id /\ cmd'.file = cmd.file
      /\ cmd'.open = TRUE
  BY <1>1, <1>2 DEF CreateCmd
<1>4. /\ stick' \in [by : {"nobody", "kdub", "Tails"}, features : SUBSET PersistenceConf,
                      config : FileStates, keys : KeyStore]
      /\ home' \in [dirs : SUBSET Dirs, files : FileRecord, keys : KeyStore]
      /\ stick'.by = stick.by /\ stick'.features = stick.features
      /\ home.dirs \subseteq home'.dirs
      /\ \A j \in Ids : j # cmd.id => stick'.keys[j] = stick.keys[j]
      /\ Paired(stick.keys)' /\ Paired(home.keys)'
      /\ StoreNow'[cmd.id] = IF cmd.file = "meta" THEN [meta |-> "torn", key |-> "absent"]
                             ELSE [meta |-> "ok", key |-> "torn"]
  BY <1>1, KeyWritten
<1>5. Types'
  BY <1>1, <1>3, <1>4 DEF SInv, Types
<1>6. Sessions' /\ Directories'
  BY <1>1, <1>2, <1>3, <1>4 DEF SInv, Sessions, Directories
<1>7. KeysStay'
  BY <1>1, <1>2, <1>4 DEF SInv, KeysStay, CreateSoFar, Types
<1>8. CreateSoFar'
  BY <1>1, <1>2, <1>3, <1>4 DEF CreateSoFar
<1> QED BY <1>3, <1>4, <1>5, <1>6, <1>7, <1>8 DEF SInv

\* When `doctor` is content with the storage that kdub made, the store is on the stick.
LEMMA ReassuredOnStick ==
  ASSUME SInv, Reassured
  PROVE  stick.by # "nobody" /\ (stick.by = "kdub" => StoreOnStick)
BY DEF SInv, Sessions, Reassured, StoreOnStick, OnStick, Mounted, PersistenceConf

\* After the metadata comes the key, and after the key an identity is made.
LEMMA FillKeyStep == ASSUME SInv, FillKey PROVE SInv'
<1>1. /\ cmd.name = "create" /\ SetKey(cmd.id, cmd.file, "ok")
      /\ IF cmd.file = "meta"
         THEN cmd' = [cmd EXCEPT !.file = "key", !.open = FALSE] /\ UNCHANGED made
         ELSE cmd' = Idle /\ made' = IF Reassured THEN made \cup {cmd.id} ELSE made
      /\ UNCHANGED <<session, report>>
  BY DEF FillKey
<1>2. cmd \in CreateCmd /\ CreateSoFar /\ cmd # Idle
  BY <1>1, Commands DEF SInv
<1>3. cmd.id \in Ids /\ cmd.file \in {"meta", "key"}
  BY <1>2 DEF CreateCmd
<1>4. /\ stick' \in [by : {"nobody", "kdub", "Tails"}, features : SUBSET PersistenceConf,
                      config : FileStates, keys : KeyStore]
      /\ home' \in [dirs : SUBSET Dirs, files : FileRecord, keys : KeyStore]
      /\ stick'.by = stick.by /\ stick'.features = stick.features
      /\ home.dirs \subseteq home'.dirs
      /\ \A j \in Ids : j # cmd.id => stick'.keys[j] = stick.keys[j]
      /\ Paired(stick.keys)' /\ Paired(home.keys)'
      /\ StoreNow'[cmd.id] = IF cmd.file = "meta" THEN [meta |-> "ok", key |-> "absent"]
                             ELSE [meta |-> "ok", key |-> "ok"]
      /\ StoreOnStick' <=> StoreOnStick
  BY <1>1, KeyWritten
<1>5. \A j \in made : stick.by = "kdub" => stick'.keys[j] = [meta |-> "ok", key |-> "ok"]
  BY <1>2, <1>4 DEF SInv, KeysStay, CreateSoFar, Types
<1>6. CASE cmd.file = "meta"
  <2>1. cmd' = [cmd EXCEPT !.file = "key", !.open = FALSE] /\ made' = made
    BY <1>1, <1>6
  <2>2. /\ cmd' \in CreateCmd /\ cmd'.name = "create" /\ cmd'.id = cmd.id /\ cmd'.file = "key"
        /\ cmd'.open = FALSE
    BY <1>2, <2>1 DEF CreateCmd
  <2>3. Types'
    BY <1>1, <1>4, <2>1, <2>2 DEF SInv, Types
  <2>4. Sessions' /\ Directories'
    BY <1>1, <1>2, <1>4, <2>1, <2>2 DEF SInv, Sessions, Directories
  <2>5. KeysStay'
    BY <1>4, <1>5, <2>1 DEF KeysStay
  <2>6. CreateSoFar'
    BY <1>2, <1>4, <1>6, <2>1, <2>2 DEF CreateSoFar
  <2> QED BY <1>4, <2>2, <2>3, <2>4, <2>5, <2>6 DEF SInv
<1>7. CASE cmd.file = "key"
  <2>1. cmd' = Idle /\ made' = IF Reassured THEN made \cup {cmd.id} ELSE made
    BY <1>1, <1>7
  <2>2. Types'
    BY <1>1, <1>3, <1>4, <2>1 DEF SInv, Types
  <2>3. Sessions' /\ Directories'
    BY <1>1, <1>4, <2>1, ReassuredOnStick DEF SInv, Sessions, Directories, Idle
  <2>4. KeysStay'
    <3>1. Reassured /\ stick.by = "kdub" => stick'.keys[cmd.id] = [meta |-> "ok", key |-> "ok"]
      BY <1>4, <1>7, ReassuredOnStick DEF StoreNow
    <3> QED BY <1>4, <1>5, <2>1, <3>1 DEF KeysStay
  <2> QED BY <1>4, <2>1, <2>2, <2>3, <2>4, WhenIdle
<1> QED BY <1>3, <1>6, <1>7

\* Every step keeps the invariant.
LEMMA SNext == ASSUME SInv, [Next]_vars PROVE SInv'
<1>1. CASE Persist \/ WelcomeScreen
  BY <1>1, StorageStep
<1>2. CASE Boot \/ Shutdown \/ Abort \/ EditConfig
  BY <1>2, BootStep, ShutdownStep, AbortStep, EditStep
<1>3. CASE BeginInit \/ TruncateFile \/ FillFile \/ InitDone
  BY <1>3, BeginInitStep, TruncateFileStep, FillFileStep, InitDoneStep
<1>4. CASE Doctor
  BY <1>4, DoctorStep
<1>5. CASE (\E i \in Ids : BeginCreate(i)) \/ TruncateKey \/ FillKey
  BY <1>5, BeginCreateStep, TruncateKeyStep, FillKeyStep
<1>6. CASE UNCHANGED vars
  BY <1>6 DEF vars, SInv, Types, Sessions, Directories, Paired, KeysStay, InitSoFar, CreateSoFar,
              StoreNow, StoreOnStick, OnStick, Mounted, FileState, Linked
<1> QED BY <1>1, <1>2, <1>3, <1>4, <1>5, <1>6 DEF Next
-----------------------------------------------------------------------------
(* The theorems.                                                           *)

\* The invariant, in every state of every behaviour.
THEOREM Invariant == Spec => []SInv
<1>1. SInv /\ [Next]_vars => SInv'
  BY SNext
<1> QED BY <1>1, SInit, PTL DEF Spec

\* TypeOK: the types, and that no key file is there without its metadata
\* (run_create writes the metadata first).
THEOREM TypeCorrect == Spec => []TypeOK
<1>1. SInv => TypeOK
  <2> SUFFICES ASSUME SInv PROVE TypeOK
    OBVIOUS
  <2>1. cmd.name \in {"idle", "init", "create"}
    BY Commands DEF SInv
  <2>2. \A keys \in {stick.keys, home.keys} :
          keys \in [Ids -> KeyFiles] /\ \A i \in Ids : keys[i].key # "absent" => keys[i].meta = "ok"
    BY DEF SInv, Types, Paired, KeyStore
  <2>3. /\ stick.features \subseteq PersistenceConf /\ stick.config \in FileStates
        /\ session \in [st : {"off", "locked", "unlocked", "linux"}, env : SUBSET Variables,
                        inited : BOOLEAN]
        /\ home.files \in [Files -> FileStates]
        /\ report \in [persistent : BOOLEAN, dirs : BOOLEAN] /\ made \subseteq Ids
    BY DEF SInv, Types, FileRecord
  <2> QED BY <2>1, <2>2, <2>3 DEF TypeOK
<1> QED BY <1>1, Invariant, PTL

\* KeysStay: an identity that was created after `doctor` was content is on the stick for
\* good, whatever sessions follow (check_persistence_mounted, resolve_data_dir).
THEOREM CreatedKeysStay == Spec => []KeysStay
<1>1. SInv => KeysStay
  BY DEF SInv
<1> QED BY <1>1, Invariant, PTL

\* InitRepairs: when `init` reports success its files are whole, whatever was there
\* before (run_init, write_file_mode).
THEOREM InitLeavesWholeFiles == Spec => []InitRepairs
<1>1. SInv => InitRepairs
  <2> SUFFICES ASSUME SInv, cmd.name = "init", cmd.todo = {}
               PROVE  /\ \A f \in GpgFiles \cup (IF cmd.tor THEN {Dirmngr} ELSE {}) : FileState(f) = "ok"
                      /\ FileState(Config) =
                           IF cmd.force \/ cmd.found = "absent" THEN "ok" ELSE cmd.found
    BY DEF InitRepairs
  <2>1. InitSoFar(1) /\ InitSoFar(2) /\ InitSoFar(3) /\ InitSoFar(4) /\ InitSoFar(5)
    BY DEF SInv
  <2> QED BY <2>1, OrderIs DEF InitSoFar, GpgFiles
<1> QED BY <1>1, Invariant, PTL

\* DoctorSeesInit: `doctor` looks for the directories where `init` made them (the
\* resolutions of the data directory in init.rs, doctor.rs and mod.rs).
THEOREM DoctorAgrees == Spec => DoctorSeesInit
<1>1. SInv /\ [Next]_vars =>
        [report' # report /\ session.inited /\ session' = session => report'.dirs]_vars
  <2> SUFFICES ASSUME SInv, Next, report' # report, session.inited, session' = session
               PROVE  report'.dirs
    BY DEF vars
  <2>1. CASE Doctor
    <3>1. {ConfigDir(session.env), DoctorDataDir(session.env)} \subseteq home.dirs
      BY DEF SInv, Directories, DoctorDataDir
    <3> QED BY <2>1, <3>1 DEF Doctor, Exists
  <2>2. CASE Shutdown
    <3>1. session' = Off /\ ~Off.inited
      BY <2>2 DEF Shutdown, Off
    <3> QED BY <3>1
  <2>3. CASE ~Doctor /\ ~Shutdown
    BY <2>3 DEF Next, Persist, WelcomeScreen, Boot, Abort, EditConfig, BeginInit, TruncateFile,
                FillFile, InitDone, BeginCreate, TruncateKey, FillKey
  <2> QED BY <2>1, <2>2, <2>3
<1> QED BY <1>1, Invariant, PTL DEF Spec, DoctorSeesInit
-----------------------------------------------------------------------------
(***************************************************************************)
(* Updater.                                                                *)
(***************************************************************************)
\* Nobody knows of a release that is not there yet.
Known ==
  /\ installed <= released /\ told <= released
  /\ cache.version <= released
  /\ \A p \in Procs : proc[p].current <= released /\ proc[p].latest <= released

\* A notice names a release, and what is installed is one.
NoticesAreTrue == told <= released /\ installed <= released

Steps == {"idle", "run", "check", "reread", "fetch", "open", "fill",
          "compare", "latest", "confirm", "replace"}
ProcRecord == [step : Steps, current : Versions, latest : Versions]
CacheRecord == [st : {"absent", "torn", "ok"}, version : Versions]

UpdateInv == UpdateTypeOK /\ Known

\* A process goes on to q.
Becomes(p, q) ==
  /\ q \in ProcRecord /\ q.current <= released /\ q.latest <= released
  /\ proc' = [proc EXCEPT ![p] = q]

\* An update that has found a release and asks or installs has found one that is newer
\* than itself; until it has replaced the binary, it is itself what is installed.
Ahead(x) ==
  /\ x.step \notin {"idle", "open", "fill", "compare"} => x.current = installed
  /\ x.step \in {"confirm", "replace"} => x.latest > x.current
Newer == \A p \in Updates : Ahead(proc[p])

LEMMA Facts ==
  ASSUME UpdateInv
  PROVE  /\ released \in Versions /\ installed \in Versions /\ cache \in CacheRecord
         /\ age \in -MaxAhead..Interval /\ setbacks \in 0..MaxSetBacks /\ told \in 0..MaxVersion
         /\ proc \in [Procs -> ProcRecord]
         /\ installed <= released /\ told <= released /\ cache.version <= released
         /\ \A p \in Procs : proc[p].current <= released /\ proc[p].latest <= released
BY DEF UpdateInv, UpdateTypeOK, Known, ProcRecord, CacheRecord, Steps

\* What the steps of one process come to.
LEMMA Going ==
  ASSUME UpdateInv, NEW p \in Procs, NEW step \in Steps, Goto(p, step)
  PROVE  \E q : /\ Becomes(p, q) /\ q.step = step
                /\ q.current = proc[p].current /\ q.latest = proc[p].latest
<1> DEFINE q == [proc[p] EXCEPT !.step = step]
<1>1. proc[p] \in ProcRecord /\ proc[p].current <= released /\ proc[p].latest <= released
  BY Facts
<1>2. /\ q \in ProcRecord /\ q.step = step
      /\ q.current = proc[p].current /\ q.latest = proc[p].latest
  BY <1>1 DEF ProcRecord
<1>3. proc' = [proc EXCEPT ![p] = q]
  BY Facts DEF Goto
<1> QED BY <1>1, <1>2, <1>3 DEF Becomes

LEMMA Ending == ASSUME UpdateInv, NEW p \in Procs, End(p) PROVE Becomes(p, Resting)
BY Facts, VersionAssumption DEF End, Becomes, Resting, ProcRecord, Steps, Versions

LEMMA Learning ==
  ASSUME UpdateInv, NEW p \in Procs, NEW step \in Steps, NEW version \in Versions, version <= released,
         Learn(p, version, step)
  PROVE  \E q : /\ Becomes(p, q) /\ q.step = step
                /\ q.current = proc[p].current /\ q.latest = version
<1> DEFINE q == [proc[p] EXCEPT !.step = step, !.latest = version]
<1>1. proc[p] \in ProcRecord /\ proc[p].current <= released
  BY Facts
<1>2. q \in ProcRecord /\ q.step = step /\ q.current = proc[p].current /\ q.latest = version
  BY <1>1 DEF ProcRecord
<1>3. proc' = [proc EXCEPT ![p] = q]
  BY Facts DEF Learn
<1> QED BY <1>1, <1>2, <1>3 DEF Becomes

LEMMA Beginning ==
  ASSUME UpdateInv, NEW p \in Procs, NEW step \in Steps, Begin(p, step)
  PROVE  \E q : Becomes(p, q) /\ q.step = step /\ q.current = installed
<1> DEFINE q == [proc[p] EXCEPT !.step = step, !.current = installed]
<1>1. proc[p] \in ProcRecord /\ proc[p].latest <= released
      /\ installed \in Versions /\ installed <= released
  BY Facts
<1>2. q \in ProcRecord /\ q.step = step /\ q.current = installed /\ q.latest = proc[p].latest
  BY <1>1 DEF ProcRecord
<1>3. proc' = [proc EXCEPT ![p] = q]
  BY Facts DEF Begin
<1> QED BY <1>1, <1>2, <1>3 DEF Becomes

LEMMA OneProcess ==
  ASSUME UpdateInv, NEW p \in Procs, NEW q, Becomes(p, q), UNCHANGED released,
         installed' \in Versions, installed' <= released,
         cache' \in CacheRecord, cache'.version <= released,
         age' \in -MaxAhead..Interval, setbacks' \in 0..MaxSetBacks,
         told' \in 0..MaxVersion, told' <= released
  PROVE  UpdateInv' /\ \A r \in Procs : proc'[r] = IF r = p THEN q ELSE proc[r]
<1>1. proc' \in [Procs -> ProcRecord] /\ \A r \in Procs : proc'[r] = IF r = p THEN q ELSE proc[r]
  BY Facts DEF Becomes
<1>2. UpdateTypeOK'
  BY <1>1, Facts DEF UpdateTypeOK, ProcRecord, CacheRecord, Steps
<1>3. Known'
  BY <1>1, Facts DEF Known, Becomes
<1> QED BY <1>1, <1>2, <1>3 DEF UpdateInv

LEMMA UpdateStarts == ASSUME UpdateInit PROVE UpdateInv /\ Newer
BY VersionAssumption, TimeAssumption
   DEF UpdateInit, UpdateInv, UpdateTypeOK, Known, Newer, Ahead, Resting, Versions, At, Procs

\* The steps of a process that leave the binary alone.
LEMMA ProcessStep ==
  ASSUME UpdateInv, NEW p \in Procs,
         \/ p \in Checkers /\ Check(p)
         \/ p \in Updates /\ (Begin(p, "latest") \/ GetLatestRelease(p) \/ Download(p))
         \/ Write(p) \/ GiveUp(p)
  PROVE  UpdateInv' /\ installed' = installed
<1> USE Facts
<1> DEFINE Frame == UNCHANGED <<released, installed, cache, clock, told>>
<1>1. ASSUME NEW q, Becomes(p, q), Frame PROVE UpdateInv' /\ installed' = installed
  BY <1>1, OneProcess DEF clock
<1>2. ASSUME NEW step \in Steps, Goto(p, step), Frame PROVE UpdateInv' /\ installed' = installed
  BY <1>1, <1>2, Going
<1>3. ASSUME End(p), Frame PROVE UpdateInv' /\ installed' = installed
  BY <1>1, <1>3, Ending
<1>4. ASSUME NEW step \in Steps, NEW version \in Versions, version <= released,
             Learn(p, version, step), Frame
      PROVE  UpdateInv' /\ installed' = installed
  BY <1>1, <1>4, Learning
<1>r. ASSUME NEW step \in Steps, Learn(p, released, step), Frame
      PROVE  UpdateInv' /\ installed' = installed
  <2>1. released <= released
    BY VersionAssumption DEF Versions
  <2> QED BY <1>4, <1>r, <2>1
<1>5. ASSUME NEW step \in Steps, Begin(p, step) PROVE UpdateInv' /\ installed' = installed
  BY <1>1, <1>5, Beginning DEF Begin
<1>6. ASSUME Check(p), ~Compare(p) PROVE UpdateInv' /\ installed' = installed
  <2>1. CASE Begin(p, "run")
    BY <1>5, <2>1 DEF Steps
  <2>2. CASE Dispatch(p)
    BY <1>2, <2>2 DEF Dispatch, Steps
  <2>3. CASE CheckCache(p)
    BY <1>2, <2>3 DEF CheckCache, Steps
  <2>4. CASE ReadCache(p)
    BY <1>3, <1>4, <2>4 DEF ReadCache, Steps, CacheRecord
  <2>5. CASE FetchLatestVersion(p)
    BY <1>r, <2>5 DEF FetchLatestVersion, Steps
  <2>6. CASE FetchFails(p)
    BY <1>3, <2>6 DEF FetchFails
  <2> QED BY <1>6, <2>1, <2>2, <2>3, <2>4, <2>5, <2>6 DEF Check
<1>7. CASE Compare(p)
  <2>1. Becomes(p, Resting) /\ UNCHANGED <<released, installed, cache, clock>>
    BY <1>7, Ending DEF Compare
  <2>2. told' = told \/ told' = proc[p].latest
    BY <1>7 DEF Compare
  <2>3. told' \in 0..MaxVersion /\ told' <= released
    BY <2>2, VersionAssumption DEF Versions, ProcRecord
  <2> QED BY <2>1, <2>3, OneProcess DEF clock
<1>8. CASE Begin(p, "latest") \/ GetLatestRelease(p) \/ Download(p)
  BY <1>3, <1>r, <1>5, <1>8 DEF GetLatestRelease, Download, Steps
<1>9. CASE GiveUp(p)
  BY <1>3, <1>9 DEF GiveUp
<1>10. (AfterWrite(p) \/ Goto(p, "fill")) => \E q : Becomes(p, q)
  BY Going, Ending DEF AfterWrite, Steps
<1>11. CASE OpenCache(p)
  <2>1. cache' = cache \/ cache' = [cache EXCEPT !.st = "torn"]
    BY <1>11 DEF OpenCache
  <2>2. cache' \in CacheRecord /\ cache'.version <= released
    BY <2>1 DEF CacheRecord
  <2>3. /\ AfterWrite(p) \/ Goto(p, "fill")
        /\ UNCHANGED <<released, installed, clock, told>>
    BY <1>11 DEF OpenCache
  <2> QED BY <1>10, <2>2, <2>3, OneProcess DEF clock
<1>12. CASE FillCache(p)
  <2>1. cache' = [st |-> "ok", version |-> proc[p].latest] \/ cache' = [cache EXCEPT !.st = "torn"]
    BY <1>12 DEF FillCache
  <2>2. cache' \in CacheRecord /\ cache'.version <= released
    BY <2>1 DEF CacheRecord, ProcRecord
  <2>3. 0 \in -MaxAhead..Interval
    BY TimeAssumption
  <2>4. AfterWrite(p) /\ age' = 0 /\ UNCHANGED <<released, installed, setbacks, told>>
    BY <1>12 DEF FillCache
  <2> QED BY <1>10, <2>2, <2>3, <2>4, OneProcess
<1> QED BY <1>6, <1>7, <1>8, <1>9, <1>11, <1>12 DEF Write

LEMMA ReplaceStep ==
  ASSUME UpdateInv, NEW p \in Procs, ReplaceBinary(p)
  PROVE  UpdateInv' /\ installed' = proc[p].latest
<1> USE Facts
<1>1. PICK q : Becomes(p, q)
  BY Going DEF ReplaceBinary, Steps
<1>2. installed' = proc[p].latest /\ UNCHANGED <<released, cache, clock, told>>
  BY DEF ReplaceBinary
<1> QED BY <1>1, <1>2, OneProcess DEF clock, ProcRecord

\* The releases and the clock.
LEMMA WorldStep ==
  ASSUME UpdateInv, Release \/ Tick \/ SetClockBack \/ UNCHANGED updateVars
  PROVE  UpdateInv' /\ UNCHANGED <<installed, proc>>
<1> USE Facts
<1>1. CASE Release
  <2>1. released' \in Versions /\ released' = released + 1
        /\ UNCHANGED <<installed, cache, clock, told, proc>>
    BY <1>1, VersionAssumption DEF Release, Versions
  <2>2. UpdateTypeOK'
    BY <2>1 DEF UpdateInv, UpdateTypeOK, clock
  <2>3. Known'
    BY <2>1, VersionAssumption DEF Known, Versions, CacheRecord, ProcRecord
  <2> QED BY <2>1, <2>2, <2>3 DEF UpdateInv
<1>2. CASE Tick
  <2>1. age' \in -MaxAhead..Interval
    BY <1>2, TimeAssumption DEF Tick
  <2> QED BY <1>2, <2>1 DEF Tick, UpdateInv, UpdateTypeOK, Known
<1>3. CASE SetClockBack
  <2>1. age' \in -MaxAhead..Interval /\ setbacks' \in 0..MaxSetBacks
    BY <1>3, TimeAssumption DEF SetClockBack
  <2> QED BY <1>3, <2>1 DEF SetClockBack, UpdateInv, UpdateTypeOK, Known
<1>4. CASE UNCHANGED updateVars
  BY <1>4 DEF updateVars, UpdateInv, UpdateTypeOK, Known
<1> QED BY <1>1, <1>2, <1>3, <1>4

LEMMA UpdateStep == ASSUME UpdateInv, [UpdateNext]_updateVars PROVE UpdateInv'
BY ProcessStep, ReplaceStep, WorldStep DEF UpdateNext, Update, Procs

\* The variables of the model keep their types (UpdateTypeOK).
THEOREM UpdateTypes == UpdateSpec => []UpdateTypeOK
<1>1. UpdateInv => UpdateTypeOK
  BY DEF UpdateInv
<1>2. UpdateInit => UpdateInv
  BY UpdateStarts
<1>3. UpdateInv /\ [UpdateNext]_updateVars => UpdateInv'
  BY UpdateStep
<1> QED BY <1>1, <1>2, <1>3, PTL DEF UpdateSpec

\* What a notice names, and what is installed, has been released (check_and_notify,
\* run_update), whatever the cache file went through.
THEOREM OnlyReleased == UpdateSpec => []NoticesAreTrue
<1>1. UpdateInv => NoticesAreTrue
  BY DEF UpdateInv, Known, NoticesAreTrue
<1>2. UpdateInit => UpdateInv
  BY UpdateStarts
<1>3. UpdateInv /\ [UpdateNext]_updateVars => UpdateInv'
  BY UpdateStep
<1> QED BY <1>1, <1>2, <1>3, PTL DEF UpdateSpec

-----------------------------------------------------------------------------
(* One update at a time.                                                   *)

LEMMA AheadStep ==
  ASSUME UpdateInv, NEW p \in Procs, Ahead(proc[p]),
         \/ Check(p) \/ Begin(p, "latest") \/ GetLatestRelease(p) \/ Download(p)
         \/ Write(p) \/ GiveUp(p)
  PROVE  \E q : Becomes(p, q) /\ Ahead(q)
<1> USE Facts
<1>1. proc[p] \in ProcRecord /\ released \in Int /\ released <= released
  BY VersionAssumption DEF Versions
<1>2. End(p) => Becomes(p, Resting) /\ Ahead(Resting)
  BY Ending DEF Ahead, Resting
<1>3. ASSUME NEW step \in {"open", "fill", "compare"}, Goto(p, step)
      PROVE  \E q : Becomes(p, q) /\ Ahead(q)
  BY <1>3, Going DEF Steps, Ahead
<1>4. ASSUME NEW step \in {"open", "fill", "compare"}, NEW version \in Versions, version <= released,
             Learn(p, version, step)
      PROVE  \E q : Becomes(p, q) /\ Ahead(q)
  BY <1>4, Learning DEF Steps, Ahead
<1>5. ASSUME NEW step \in {"run", "latest"}, Begin(p, step) PROVE \E q : Becomes(p, q) /\ Ahead(q)
  BY <1>5, Beginning DEF Steps, Ahead
<1>6. ASSUME NEW step \in {"check", "reread", "fetch"}, Goto(p, step), proc[p].step \in {"run", "check"}
      PROVE  \E q : Becomes(p, q) /\ Ahead(q)
  BY <1>6, Going DEF Steps, Ahead
<1>7. ASSUME NEW step \in {"confirm", "replace"}, Learn(p, released, step),
             proc[p].step \in {"latest", "confirm"}, released > proc[p].current
      PROVE  \E q : Becomes(p, q) /\ Ahead(q)
  BY <1>1, <1>7, Learning DEF Steps, Ahead
<1>8. CASE Check(p)
  <2>1. CASE Begin(p, "run")
    BY <1>5, <2>1
  <2>2. CASE Dispatch(p)
    BY <1>6, <2>2 DEF Dispatch, At
  <2>3. CASE CheckCache(p)
    BY <1>6, <2>3 DEF CheckCache, At
  <2>4. CASE ReadCache(p)
    BY <1>2, <1>4, <2>4 DEF ReadCache, CacheRecord
  <2>5. CASE FetchLatestVersion(p)
    BY <1>1, <1>4, <2>5 DEF FetchLatestVersion
  <2>6. CASE FetchFails(p) \/ Compare(p)
    BY <1>2, <2>6 DEF FetchFails, Compare
  <2> QED BY <1>8, <2>1, <2>2, <2>3, <2>4, <2>5, <2>6 DEF Check
<1>9. CASE Begin(p, "latest")
  BY <1>5, <1>9
<1>10. CASE GetLatestRelease(p)
  <2>1. CASE proc[p].current >= released
    BY <1>2, <1>10, <2>1 DEF GetLatestRelease
  <2>2. CASE ~(proc[p].current >= released)
    <3>1. released > proc[p].current
      BY <1>1, <2>2, VersionAssumption DEF ProcRecord, Versions
    <3> QED BY <1>7, <1>10, <2>2, <3>1 DEF GetLatestRelease, At
  <2> QED BY <2>1, <2>2
<1>11. CASE Download(p)
  <2>1. proc[p].step = "confirm" /\ Learn(p, released, "replace")
    BY <1>11 DEF Download, At
  <2>2. released > proc[p].current
    BY <1>1, <2>1, VersionAssumption DEF Ahead, ProcRecord, Versions
  <2> QED BY <1>7, <2>1, <2>2
<1>12. CASE Write(p)
  BY <1>2, <1>3, <1>12 DEF Write, OpenCache, FillCache, AfterWrite
<1>13. CASE GiveUp(p)
  BY <1>2, <1>13 DEF GiveUp
<1> QED BY <1>8, <1>9, <1>10, <1>11, <1>12, <1>13

\* Every step keeps that, and what is installed does not become older.
LEMMA NewerStep ==
  ASSUME \A p, q \in Updates : p = q, UpdateInv, Newer, [UpdateNext]_updateVars
  PROVE  Newer' /\ installed' >= installed
<1> USE Facts
<1>i. installed \in Int
  BY VersionAssumption DEF Versions
<1>1. ASSUME NEW p \in Procs,
             \/ p \in Checkers /\ Check(p)
             \/ p \in Updates /\ (Begin(p, "latest") \/ GetLatestRelease(p) \/ Download(p))
             \/ Write(p) \/ GiveUp(p)
      PROVE  Newer' /\ installed' >= installed
  <2>1. installed' = installed
    BY <1>1, ProcessStep
  <2>2. \A r \in Procs \ {p} : proc'[r] = proc[r]
    BY <1>1 DEF Check, Begin, Dispatch, CheckCache, ReadCache, FetchLatestVersion, FetchFails,
                Compare, GetLatestRelease, Download, Write, OpenCache, FillCache, AfterWrite, GiveUp,
                Goto, End, Learn
  <2>3. CASE p \in Updates
    <3>1. PICK q : Becomes(p, q) /\ Ahead(q)
      BY <1>1, <2>3, AheadStep DEF Newer
    <3>2. proc'[p] = q
      BY <3>1 DEF Becomes
    <3>3. \A r \in Updates : r = p
      BY <2>3
    <3> QED BY <1>i, <2>1, <3>1, <3>2, <3>3 DEF Newer, Ahead
  <2>4. CASE p \notin Updates
    <3>1. \A r \in Updates : proc'[r] = proc[r]
      BY <2>2, <2>4 DEF Procs
    <3> QED BY <1>i, <2>1, <3>1 DEF Newer, Ahead
  <2> QED BY <2>3, <2>4
<1>2. ASSUME NEW p \in Updates, ReplaceBinary(p) PROVE Newer' /\ installed' >= installed
  <2>1. p \in Procs /\ proc[p] \in ProcRecord /\ proc[p].step = "replace"
    BY <1>2 DEF Procs, ReplaceBinary, At
  <2>2. proc[p].latest > installed /\ installed' = proc[p].latest
    BY <1>2, <2>1, ReplaceStep DEF Newer, Ahead
  <2>3. proc'[p].step = "open" /\ \A r \in Updates : r = p
    BY <1>2, <2>1 DEF ReplaceBinary, Goto, ProcRecord
  <2>4. installed' >= installed
    BY <1>i, <2>1, <2>2, VersionAssumption DEF ProcRecord, Versions
  <2> QED BY <2>3, <2>4 DEF Newer, Ahead
<1>3. CASE Release \/ Tick \/ SetClockBack \/ UNCHANGED updateVars
  <2>1. UNCHANGED <<installed, proc>>
    BY <1>3, WorldStep
  <2> QED BY <1>i, <2>1 DEF Newer, Ahead
<1> QED BY <1>1, <1>2, <1>3 DEF UpdateNext, Update, Procs

\* As long as no other update runs, `kdub update` never puts an older version in the
\* place of a newer one (determine_update_action: "if current >= latest"), although
\* the release that it installs may be another than the one it asked about.
THEOREM NeverOlder ==
  ASSUME \A p, q \in Updates : p = q
  PROVE  UpdateSpec => [][installed' >= installed]_updateVars
<1>1. UpdateInit => UpdateInv /\ Newer
  BY UpdateStarts
<1>2. UpdateInv /\ Newer /\ [UpdateNext]_updateVars =>
        UpdateInv' /\ Newer' /\ [installed' >= installed]_updateVars
  BY UpdateStep, NewerStep
<1> QED BY <1>1, <1>2, PTL DEF UpdateSpec
=============================================================================
