------------------------------- MODULE Updater -------------------------------
(***************************************************************************)
(* The version check after every command and `kdub update`, which share    *)
(* the cache file update-check.json.  Time is counted in parts of the      *)
(* CHECK_INTERVAL; GitHub, the clock and the self_update crate, which      *)
(* downloads, verifies and replaces the binary, are external.              *)
(***************************************************************************)
EXTENDS Integers

CONSTANTS
  Checkers,     \* processes that check for an update when they are done
  Updates,      \* processes running `kdub update`
  MaxVersion,   \* bound: releases
  Interval,     \* CHECK_INTERVAL
  MaxAhead,     \* bound: how far the clock is ever set back
  MaxSetBacks   \* bound: how often

ASSUME VersionAssumption == MaxVersion \in Nat \ {0}
ASSUME TimeAssumption ==
  Interval \in Nat \ {0} /\ MaxAhead \in Nat /\ MaxSetBacks \in Nat

Versions == 1..MaxVersion
Procs == Checkers \cup Updates

VARIABLES
  released,    \* the latest release on GitHub
  installed,   \* the version of the kdub binary
  cache,       \* state and version of the cache file
  age,         \* now - checked_at by the clock, capped at Interval
  setbacks,    \* how often the clock has been set back
  told,        \* the newest version a notice has named
  proc         \* what each process is doing, what it runs and what it fetched

updateVars == <<released, installed, cache, age, setbacks, told, proc>>

Resting == [step |-> "idle", current |-> 1, latest |-> 1]

UpdateInit ==
  /\ released = 1 /\ installed = 1
  /\ cache = [st |-> "absent", version |-> 1]
  /\ age = 0 /\ setbacks = 0 /\ told = 0
  /\ proc = [p \in Procs |-> Resting]

At(p, step) == proc[p].step = step
Goto(p, step) == proc' = [proc EXCEPT ![p].step = step]
End(p) == proc' = [proc EXCEPT ![p] = Resting]
Learn(p, version, step) ==
  proc' = [proc EXCEPT ![p].step = step, ![p].latest = version]
clock == <<age, setbacks>>

\* A process runs the binary that is installed when it starts, to its end.
Begin(p, step) ==
  /\ At(p, "idle")
  /\ proc' = [proc EXCEPT ![p].step = step, ![p].current = installed]
  /\ UNCHANGED <<released, installed, cache, clock, told>>
\* dispatch: after a command that succeeded, of whatever kind but `update` and however
\* long it took, comes the check, but for --quiet and without a terminal.
Dispatch(p) ==
  /\ At(p, "run")
  /\ Goto(p, "check")
  /\ UNCHANGED <<released, installed, cache, clock, told>>
-----------------------------------------------------------------------------
ReadableCache == cache.st = "ok"

\* Mutant: a cache that can be read is fresh.
CacheIsAlwaysFresh == ReadableCache

\* check_and_notify: the cache when it is fresh, read once for its time and again
\* for its version; otherwise GitHub, and the cache is written when it answers.
CacheIsFresh == ReadableCache /\ (IF age < 0 THEN 0 ELSE age) < Interval

CheckCache(p) ==
  /\ At(p, "check")
  /\ Goto(p, IF CacheIsFresh THEN "reread" ELSE "fetch")
  /\ UNCHANGED <<released, installed, cache, clock, told>>

\* Mutant: an unreadable cache counts as version zero.
ReadCacheOrZero(p) ==
  /\ At(p, "reread")
  /\ Learn(p, IF cache.st = "ok" THEN cache.version ELSE 0, "compare")
  /\ UNCHANGED <<released, installed, cache, clock, told>>

ReadCache(p) ==
  /\ At(p, "reread")
  /\ IF ReadableCache THEN Learn(p, cache.version, "compare") ELSE End(p)
  /\ UNCHANGED <<released, installed, cache, clock, told>>

FetchLatestVersion(p) ==
  /\ At(p, "fetch")
  /\ Learn(p, released, "open")
  /\ UNCHANGED <<released, installed, cache, clock, told>>

FetchFails(p) ==        \* no network, 3 seconds gone, an answer that says nothing
  /\ At(p, "fetch")
  /\ End(p)
  /\ UNCHANGED <<released, installed, cache, clock, told>>

Compare(p) ==
  /\ At(p, "compare")
  /\ told' = IF proc[p].latest > proc[p].current /\ proc[p].latest > told
             THEN proc[p].latest ELSE told
  /\ End(p)
  /\ UNCHANGED <<released, installed, cache, clock>>

\* write_cache truncates the file and fills it; its errors are ignored.
AfterWrite(p) ==
  IF p \in Checkers THEN Goto(p, "compare") ELSE End(p)

OpenCache(p) ==
  /\ At(p, "open")
  /\ \/ cache' = [cache EXCEPT !.st = "torn"] /\ Goto(p, "fill")
     \/ UNCHANGED cache /\ AfterWrite(p)
  /\ UNCHANGED <<released, installed, clock, told>>

\* Whatever another process has put there meanwhile is overwritten from the start;
\* what is left of a longer text makes the file unreadable.
FillCache(p) ==
  /\ At(p, "fill")
  /\ cache' \in {[st |-> "ok", version |-> proc[p].latest]}
                \cup (IF cache.st = "ok" THEN {[cache EXCEPT !.st = "torn"]} ELSE {})
  /\ age' = 0
  /\ AfterWrite(p)
  /\ UNCHANGED <<released, installed, setbacks, told>>
-----------------------------------------------------------------------------
\* run_update: the latest release, a prompt, then self_update looks the latest
\* release up once more, downloads it, and replaces the binary.
GetLatestRelease(p) ==
  /\ At(p, "latest")
  /\ IF proc[p].current >= released THEN End(p) ELSE Learn(p, released, "confirm")
  /\ UNCHANGED <<released, installed, cache, clock, told>>

Download(p) ==
  /\ At(p, "confirm")
  /\ Learn(p, released, "replace")
  /\ UNCHANGED <<released, installed, cache, clock, told>>

ReplaceBinary(p) ==
  /\ At(p, "replace")
  /\ installed' = proc[p].latest
  /\ Goto(p, "open")
  /\ UNCHANGED <<released, cache, clock, told>>

\* Killed, cancelled at the prompt, no network, an error of any other kind, or a
\* command after which there is no check.
GiveUp(p) ==
  /\ ~At(p, "idle")
  /\ End(p)
  /\ UNCHANGED <<released, installed, cache, clock, told>>
-----------------------------------------------------------------------------
Release ==
  /\ released < MaxVersion
  /\ released' = released + 1
  /\ UNCHANGED <<installed, cache, clock, told, proc>>

\* Writing the cache takes no time.
Tick ==
  /\ \A p \in Procs : ~At(p, "fill")
  /\ age < Interval
  /\ age' = age + 1
  /\ UNCHANGED <<released, installed, cache, setbacks, told, proc>>

SetClockBack ==
  /\ setbacks < MaxSetBacks
  /\ setbacks' = setbacks + 1
  /\ age' \in -MaxAhead..(age - 1)
  /\ UNCHANGED <<released, installed, cache, told, proc>>

Check(p) ==
  \/ Begin(p, "run") \/ Dispatch(p) \/ CheckCache(p) \/ ReadCache(p) \/ FetchLatestVersion(p)
  \/ FetchFails(p) \/ Compare(p)
Update(p) ==
  Begin(p, "latest") \/ GetLatestRelease(p) \/ Download(p) \/ ReplaceBinary(p)
Write(p) == OpenCache(p) \/ FillCache(p)

UpdateNext ==
  \/ \E p \in Checkers : Check(p)
  \/ \E p \in Updates : Update(p)
  \/ \E p \in Procs : Write(p) \/ GiveUp(p)
  \/ Release \/ Tick \/ SetClockBack

\* The owner keeps using kdub on a terminal and time goes on; no write hangs forever; not
\* every command fails or is killed, and GitHub is not out of reach every time.
Fairness ==
  /\ WF_updateVars(Tick) /\ \A p \in Updates : WF_updateVars(FillCache(p))
  /\ \A p \in Checkers :
       /\ WF_updateVars(Begin(p, "run")) /\ SF_updateVars(Dispatch(p)) /\ SF_updateVars(CheckCache(p)) /\ SF_updateVars(ReadCache(p))
       /\ SF_updateVars(FetchLatestVersion(p)) /\ SF_updateVars(Compare(p))
       /\ SF_updateVars(OpenCache(p)) /\ SF_updateVars(FillCache(p))

UpdateSpec == UpdateInit /\ [][UpdateNext]_updateVars /\ Fairness
-----------------------------------------------------------------------------
\* The type of every variable.
UpdateTypeOK ==
  /\ released \in Versions /\ installed \in Versions
  /\ cache \in [st : {"absent", "torn", "ok"}, version : Versions]
  /\ age \in -MaxAhead..Interval /\ setbacks \in 0..MaxSetBacks
  /\ told \in 0..MaxVersion
  /\ proc \in [Procs -> [step : {"idle", "run", "check", "reread", "fetch", "open", "fill",
                                 "compare", "latest", "confirm", "replace"},
                         current : Versions, latest : Versions]]

\* A release newer than the installed binary is named in a notice, or installed,
\* sooner or later, whatever the cache held when it came out, whichever writes of
\* the cache died half way, and although the clock may have been set back, which
\* makes the cache look fresh until the clock has caught up (check_and_notify,
\* cache_is_fresh, write_cache).
EventuallyTold ==
  \A v \in Versions :
    released >= v /\ installed < v ~> told >= v \/ installed >= v
=============================================================================
