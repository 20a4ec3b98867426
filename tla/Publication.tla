---------------------------- MODULE Publication ----------------------------
(***************************************************************************)
(* `key publish`, which takes the public key to the keyserver, to GitHub,  *)
(* to a Web Key Directory and to a file, in this order, while the key      *)
(* changes.  Changes only ever add packets to a key (SignaturesStay of     *)
(* KeyExpiry), so a copy is known by the number of changes it has seen.    *)
(***************************************************************************)
EXTENDS Integers

CONSTANTS
  MaxVersion,   \* bound: how often the key is renewed or rotated
  UserIds       \* the first user ids of keys: has it a mail address, which can be a path?

ASSUME VersionAssumption == MaxVersion \in Nat
ASSUME UserIdAssumption == UserIds \subseteq {"mail", "no mail", "mail with a slash"}

Copies == {"keyserver", "wkd", "file"}    \* what this module keeps track of
Places == Copies \cup {"github"}

VARIABLES
  uid,       \* the first user id of the key
  version,   \* of the key file; NoKey before `key create`
  copies,    \* of each place: the version it got last, and whether it is whole
  pub        \* the running `key publish`

vars == <<uid, version, copies, pub>>

\* extract_email_from_key.
Address(u) == IF u = "no mail" THEN {} ELSE {u}
\* wkd_hash: none for a domain that would lead out of the directory.
WkdPath(address) == address \ {"mail with a slash"}

NoKey == -1
Versions == 0..MaxVersion
Idle == [step |-> "idle", want |-> {}, armored |-> NoKey, wkd |-> NoKey]

Steps == {"idle", "keyserver", "github", "wkd", "wkd open", "wkd fill",
          "file", "file fill", "done"}

\* The places that come after a step, in the order of run_publish.
Order == <<"keyserver", "github", "wkd", "file">>
After(step, want) ==
  LET later == {i \in DOMAIN Order :
                  Order[i] \in want /\ \E j \in 1..(i - 1) : Order[j] = step}
  IN  IF later = {} THEN "done" ELSE Order[CHOOSE i \in later : \A j \in later : i <= j]

Init ==
  /\ uid \in UserIds
  /\ version = NoKey
  /\ copies = [place \in Copies |-> [st |-> "absent", version |-> NoKey]]
  /\ pub = Idle

\* `key create`, `renew` and `rotate`.
ChangeKey ==
  /\ version < MaxVersion
  /\ version' = version + 1
  /\ UNCHANGED <<uid, copies, pub>>
-----------------------------------------------------------------------------
At(step) == pub.step = step
Goto(step) == pub' = [pub EXCEPT !.step = step]
End == pub' = Idle

First(want) ==
  IF "keyserver" \in want THEN "keyserver" ELSE After("keyserver", want)
NextPlace(place) == Goto(After(place, pub.want))

\* export_armored_pubkey comes before anything is sent.
Begin(want) ==
  /\ At("idle") /\ version # NoKey /\ want # {}
  /\ pub' = [step |-> First(want), want |-> want, armored |-> version, wkd |-> NoKey]
  /\ UNCHANGED <<uid, version, copies>>

\* Mutant: the keyserver is asked for nothing but new keys.
PublishToKeyserverOnce ==
  /\ At("keyserver")
  /\ copies' = IF copies["keyserver"].st = "ok" THEN copies
               ELSE [copies EXCEPT !["keyserver"] = [st |-> "ok", version |-> pub.armored]]
  /\ NextPlace("keyserver")
  /\ UNCHANGED <<uid, version>>

\* The keyserver merges what it gets with what it has.
PublishToKeyserver ==
  /\ At("keyserver")
  /\ copies' = [copies EXCEPT !["keyserver"] =
       [st |-> "ok", version |-> IF pub.armored > @.version THEN pub.armored ELSE @.version]]
  /\ NextPlace("keyserver")
  /\ UNCHANGED <<uid, version>>

\* GitHub takes the key; without a token --all (with which the keyserver is wanted)
\* passes over it.
PublishToGithub ==
  /\ At("github")
  /\ NextPlace("github")
  /\ UNCHANGED <<uid, version, copies>>

\* Mutant: the key is loaded only for a directory that has one.
LoadForWkdAgain ==
  /\ At("wkd") /\ WkdPath(Address(uid)) # {}
  /\ pub' = [pub EXCEPT !.step = "wkd open",
                        !.wkd = IF copies["wkd"].st = "ok" THEN version ELSE NoKey]
  /\ UNCHANGED <<uid, version, copies>>

\* Mutant: a directory that has a key keeps it.
LoadForWkdStale ==
  /\ At("wkd") /\ WkdPath(Address(uid)) # {}
  /\ pub' = [pub EXCEPT !.step = "wkd open",
                        !.wkd = IF copies["wkd"].st = "ok" THEN copies["wkd"].version ELSE version]
  /\ UNCHANGED <<uid, version, copies>>

\* The key is loaded once more, and there has to be a path for its address.
LoadForWkd ==
  /\ At("wkd") /\ WkdPath(Address(uid)) # {}
  /\ pub' = [pub EXCEPT !.step = "wkd open", !.wkd = version]
  /\ UNCHANGED <<uid, version, copies>>

NoAddress ==
  /\ At("wkd") /\ WkdPath(Address(uid)) = {}
  /\ End
  /\ UNCHANGED <<uid, version, copies>>

\* std::fs::write truncates the file and then fills it.
TruncateWkd ==
  /\ At("wkd open")
  /\ copies' = [copies EXCEPT !["wkd"].st = "torn"]
  /\ Goto("wkd fill")
  /\ UNCHANGED <<uid, version>>

\* The empty policy file that follows is left out.
FillWkd ==
  /\ At("wkd fill")
  /\ copies' = [copies EXCEPT !["wkd"] = [st |-> "ok", version |-> pub.wkd]]
  /\ pub' = [pub EXCEPT !.step = After("wkd", pub.want), !.wkd = NoKey]
  /\ UNCHANGED <<uid, version>>

TruncateFile ==
  /\ At("file")
  /\ copies' = [copies EXCEPT !["file"].st = "torn"]
  /\ Goto("file fill")
  /\ UNCHANGED <<uid, version>>

FillFile ==
  /\ At("file fill")
  /\ copies' = [copies EXCEPT !["file"] = [st |-> "ok", version |-> pub.armored]]
  /\ Goto("done")
  /\ UNCHANGED <<uid, version>>

\* The command reports success.
Done ==
  /\ At("done")
  /\ End
  /\ UNCHANGED <<uid, version, copies>>

Publish ==
  \/ PublishToKeyserver \/ PublishToGithub
  \/ LoadForWkd \/ NoAddress \/ TruncateWkd \/ FillWkd
  \/ TruncateFile \/ FillFile \/ Done

\* No token or no network, an upload refused (GitHub has the key), a key file that
\* cannot be read, a full disk, or killed.
Abort ==
  /\ ~At("idle")
  /\ End
  /\ UNCHANGED <<uid, version, copies>>

\* The keyserver has got the key and the answer is lost.
AnswerLost ==
  /\ At("keyserver")
  /\ copies' = [copies EXCEPT !["keyserver"] =
       [st |-> "ok", version |-> IF pub.armored > @.version THEN pub.armored ELSE @.version]]
  /\ End
  /\ UNCHANGED <<uid, version>>

Next ==
  \/ ChangeKey
  \/ \E want \in SUBSET Places : Begin(want)
  \/ Publish \/ Abort \/ AnswerLost

\* The owner comes back to each place, and what is tried again and again works at
\* last.  A command that is not cut off goes on.
Fairness ==
  /\ \A place \in Copies : SF_vars(Begin({place}))
  /\ SF_vars(PublishToKeyserver)
  /\ SF_vars(LoadForWkd) /\ SF_vars(TruncateWkd) /\ SF_vars(FillWkd)
  /\ SF_vars(TruncateFile) /\ SF_vars(FillFile)
  /\ WF_vars(Publish)

Spec == Init /\ [][Next]_vars /\ Fairness
-----------------------------------------------------------------------------
\* The type of every variable; what a place has in full is a key, and none that is yet
\* to come.
TypeOK ==
  /\ uid \in UserIds /\ version \in Versions \cup {NoKey}
  /\ copies \in [Copies -> [st : {"absent", "torn", "ok"}, version : Versions \cup {NoKey}]]
  /\ \A place \in Copies : copies[place].st = "ok" => copies[place].version \in 0..version
  /\ copies["wkd"].st # "absent" => uid = "mail"
  /\ pub \in [step : Steps, want : SUBSET Places,
              armored : Versions \cup {NoKey}, wkd : Versions \cup {NoKey}]

\* When `key publish` reports success, every place it was told to publish to has at
\* least the key as it was at the start, whatever earlier attempts left there; only
\* GitHub may have been passed over.
PublishedEverywhere ==
  At("done") => \A place \in pub.want \cap Copies :
    copies[place].st = "ok" /\ copies[place].version >= pub.armored

\* Whatever is done to the key reaches the keyserver, the directory and the file
\* sooner or later, also after a publish that died half way through a file, or
\* stopped because an upload failed, or because the user id has no address for the
\* directory.
EventuallyPublished ==
  \A place \in Copies :
    []<>(version # NoKey /\ (place = "wkd" => uid = "mail")
           => copies[place].st = "ok" /\ copies[place].version = version)
=============================================================================
