------------------------- MODULE Publication_proofs -------------------------
(***************************************************************************)
(* Proofs about Publication, for any number of changes of the key and any  *)
(* user id.  The invariant says what a running `key publish` holds in      *)
(* memory and that it has been to every place that its step is past.       *)
(***************************************************************************)
EXTENDS Publication, TLAPS

\* The places that a step is past.
Past(step, place) ==
  \/ step \in {"github", "wkd", "wkd open", "wkd fill"} /\ place = "keyserver"
  \/ step \in {"file", "file fill"} /\ place \in {"keyserver", "wkd"}
  \/ step = "done"

Typed ==
  /\ uid \in UserIds /\ version \in Versions \cup {NoKey}
  /\ copies \in [Copies -> [st : {"absent", "torn", "ok"}, version : Versions \cup {NoKey}]]
  /\ pub \in [step : Steps, want : SUBSET Places,
              armored : Versions \cup {NoKey}, wkd : Versions \cup {NoKey}]

\* Nothing that a place has, or the command holds, is newer than the key, and a
\* directory is only there for a user id that has one.
Older ==
  /\ \A place \in Copies : copies[place].version <= version
  /\ \A place \in Copies : copies[place].st = "ok" => copies[place].version >= 0
  /\ copies["wkd"].st # "absent" => uid = "mail"
  /\ pub.step # "idle" => pub.armored >= 0 /\ pub.armored <= version
  /\ pub.step \in {"wkd open", "wkd fill"} =>
       uid = "mail" /\ pub.wkd >= pub.armored /\ pub.wkd <= version

\* Every place that is past and was wanted has got the key.
Reached ==
  \A place \in Copies : place \in pub.want /\ Past(pub.step, place) =>
    copies[place].st = "ok" /\ copies[place].version >= pub.armored

PubInv == Typed /\ Older /\ Reached
-----------------------------------------------------------------------------
\* The next place is the first that is wanted of those that come later.
LEMMA NextOf ==
  ASSUME NEW want \in SUBSET Places
  PROVE  /\ After("keyserver", want) =
              IF "github" \in want THEN "github" ELSE IF "wkd" \in want THEN "wkd"
              ELSE IF "file" \in want THEN "file" ELSE "done"
         /\ After("github", want) =
              IF "wkd" \in want THEN "wkd" ELSE IF "file" \in want THEN "file" ELSE "done"
         /\ After("wkd", want) = IF "file" \in want THEN "file" ELSE "done"
<1> DEFINE Later(step) == {i \in DOMAIN Order :
                             Order[i] \in want /\ \E j \in 1..(i - 1) : Order[j] = step}
<1>1. /\ DOMAIN Order = 1..4 /\ Order[1] = "keyserver" /\ Order[2] = "github"
      /\ Order[3] = "wkd" /\ Order[4] = "file"
  BY DEF Order
<1>2. \A step : After(step, want) =
        IF Later(step) = {} THEN "done"
        ELSE Order[CHOOSE i \in Later(step) : \A j \in Later(step) : i <= j]
  BY DEF After
<1>3. ASSUME NEW step, NEW k \in 1..4, k \in Later(step), \A j \in Later(step) : k <= j
      PROVE  After(step, want) = Order[k]
  <2>1. (CHOOSE i \in Later(step) : \A j \in Later(step) : i <= j) = k
    <3>1. \A i \in Later(step) : i \in 1..4
      BY <1>1
    <3> HIDE DEF Later
    <3>2. \A i \in Later(step) : (\A j \in Later(step) : i <= j) => i = k
      BY <1>3, <3>1
    <3> QED BY <1>3, <3>2
  <2> HIDE DEF Later
  <2> QED BY <1>2, <1>3, <2>1
<1>4. /\ \A i : i \in Later("keyserver") <=> i \in {2, 3, 4} /\ Order[i] \in want
      /\ \A i : i \in Later("github") <=> i \in {3, 4} /\ Order[i] \in want
      /\ \A i : i \in Later("wkd") <=> i \in {4} /\ Order[i] \in want
  BY <1>1
<1> HIDE DEF Later
<1>5. \A step : Later(step) = {} => After(step, want) = "done"
  BY <1>2
<1>6. After("keyserver", want) =
        IF "github" \in want THEN "github" ELSE IF "wkd" \in want THEN "wkd"
        ELSE IF "file" \in want THEN "file" ELSE "done"
  BY <1>1, <1>3, <1>4, <1>5
<1>7. After("github", want) =
        IF "wkd" \in want THEN "wkd" ELSE IF "file" \in want THEN "file" ELSE "done"
  BY <1>1, <1>3, <1>4, <1>5
<1>8. After("wkd", want) = IF "file" \in want THEN "file" ELSE "done"
  BY <1>1, <1>3, <1>4, <1>5
<1> QED BY <1>6, <1>7, <1>8

\* At first no place has anything.
LEMMA PubInit == Init => PubInv
BY VersionAssumption DEF Init, PubInv, Typed, Older, Reached, Past, Idle, NoKey, Versions, Steps,
   Copies, Places
-----------------------------------------------------------------------------
(* The steps.                                                              *)

\* The types, in terms of numbers.
LEMMA Numbers ==
  ASSUME Typed
  PROVE  /\ version \in Int /\ pub.armored \in Int /\ pub.wkd \in Int
         /\ \A place \in Copies : copies[place].version \in Int
BY VersionAssumption DEF Typed, Versions, NoKey

\* What the places have is no newer than the key.
LEMMA CopiesOlder ==
  ASSUME PubInv
  PROVE  /\ \A place \in Copies : copies[place].version <= version
         /\ \A place \in Copies : copies[place].st = "ok" => copies[place].version >= 0
         /\ copies["wkd"].st # "absent" => uid = "mail"
BY DEF PubInv, Older

\* The key changes while a command runs: every copy is one more behind.
LEMMA ChangeStep == ASSUME PubInv, ChangeKey PROVE PubInv'
<1>1. /\ version' = version + 1 /\ version < MaxVersion /\ UNCHANGED <<uid, copies, pub>>
      /\ version \in Int
  BY Numbers DEF ChangeKey, PubInv
<1>2. Typed'
  BY <1>1, VersionAssumption DEF PubInv, Typed, Versions, NoKey
<1>3. Older'
  <2>1. /\ pub.armored \in Int /\ pub.wkd \in Int
        /\ \A place \in Copies : copies[place].version \in Int
    BY Numbers DEF PubInv
  <2>2. \A n \in Int : n <= version => n <= version'
    BY <1>1
  <2>3. \A place \in Copies : copies'[place].version <= version'
    <3>1. \A place \in Copies : copies[place].version <= version
      BY DEF PubInv, Older
    <3> QED BY <1>1, <2>1, <2>2, <3>1
  <2>4. pub'.step # "idle" => pub'.armored >= 0 /\ pub'.armored <= version'
    <3>1. pub.step # "idle" => pub.armored >= 0 /\ pub.armored <= version
      BY DEF PubInv, Older
    <3> QED BY <1>1, <2>1, <2>2, <3>1
  <2>5. pub'.step \in {"wkd open", "wkd fill"} =>
          uid' = "mail" /\ pub'.wkd >= pub'.armored /\ pub'.wkd <= version'
    <3>1. pub.step \in {"wkd open", "wkd fill"} =>
            uid = "mail" /\ pub.wkd >= pub.armored /\ pub.wkd <= version
      BY DEF PubInv, Older
    <3> QED BY <1>1, <2>1, <2>2, <3>1
  <2> QED BY <1>1, <2>3, <2>4, <2>5 DEF PubInv, Older
<1>4. Reached'
  BY <1>1 DEF PubInv, Reached
<1> QED BY <1>2, <1>3, <1>4 DEF PubInv

\* A command that is over.
LEMMA EndStep == ASSUME PubInv, End, UNCHANGED <<uid, version, copies>> PROVE PubInv'
<1>1. pub' = Idle
  BY DEF End
<1>2. Typed'
  BY <1>1 DEF PubInv, Typed, Idle, Steps, Places, Copies
<1>3. Older'
  BY <1>1 DEF PubInv, Older, Idle
<1>4. Reached'
  BY <1>1 DEF Reached, Idle
<1> QED BY <1>2, <1>3, <1>4 DEF PubInv

\* A command that begins is past no place that it was told.
LEMMA BeginStep == ASSUME PubInv, NEW want \in SUBSET Places, Begin(want) PROVE PubInv'
<1>1. /\ version # NoKey /\ want # {} /\ UNCHANGED <<uid, version, copies>>
      /\ pub' = [step |-> First(want), want |-> want, armored |-> version, wkd |-> NoKey]
  BY DEF Begin
<1>2. First(want) = IF "keyserver" \in want THEN "keyserver"
        ELSE IF "github" \in want THEN "github" ELSE IF "wkd" \in want THEN "wkd"
        ELSE IF "file" \in want THEN "file" ELSE "done"
  BY NextOf DEF First
<1>3. "file" \in want \/ First(want) \in {"keyserver", "github", "wkd"}
  BY <1>1, <1>2 DEF Places, Copies
<1>4. First(want) \in Steps
  BY <1>2 DEF Steps
<1>5. Typed'
  BY <1>1, <1>4 DEF PubInv, Typed
<1>6. version >= 0
  BY <1>1, VersionAssumption DEF PubInv, Typed, Versions, NoKey
<1>7. First(want) \notin {"wkd open", "wkd fill"}
  BY <1>2
<1>8. Older'
  <2>1. version <= version
    BY Numbers DEF PubInv
  <2>2. /\ pub'.armored = version /\ pub'.step = First(want)
    BY <1>1
  <2>3. pub'.step # "idle" => pub'.armored >= 0 /\ pub'.armored <= version'
    BY <1>1, <1>6, <2>1, <2>2
  <2>4. pub'.step \notin {"wkd open", "wkd fill"}
    BY <1>7, <2>2
  <2> QED BY <1>1, <2>3, <2>4 DEF PubInv, Older
<1>9. \A place \in Copies : place \in want => ~Past(First(want), place)
  BY <1>2, <1>3 DEF Past, Copies
<1>10. Reached'
  BY <1>1, <1>9 DEF Reached
<1> QED BY <1>5, <1>8, <1>10 DEF PubInv

\* The keyserver has the key as it is armored, or a newer one.
LEMMA KeyserverHas ==
  ASSUME PubInv, At("keyserver"),
         copies' = [copies EXCEPT !["keyserver"] =
           [st |-> "ok", version |-> IF pub.armored > @.version THEN pub.armored ELSE @.version]]
  PROVE  /\ copies' \in [Copies -> [st : {"absent", "torn", "ok"}, version : Versions \cup {NoKey}]]
         /\ copies'["keyserver"].st = "ok"
         /\ copies'["keyserver"].version >= pub.armored
         /\ copies'["keyserver"].version >= 0
         /\ copies'["keyserver"].version <= version
         /\ \A place \in Copies : place # "keyserver" => copies'[place] = copies[place]
<1>1. /\ copies \in [Copies -> [st : {"absent", "torn", "ok"}, version : Versions \cup {NoKey}]]
      /\ pub.armored \in Versions \cup {NoKey} /\ "keyserver" \in Copies
  BY DEF PubInv, Typed, Copies
<1>2. pub.armored >= 0 /\ pub.armored <= version /\ copies["keyserver"].version <= version
  BY <1>1 DEF PubInv, Older, At
<1>3. /\ version \in Int /\ pub.armored \in Int /\ copies["keyserver"].version \in Int
  BY <1>1, Numbers DEF PubInv
<1> DEFINE n == IF pub.armored > copies["keyserver"].version
                THEN pub.armored ELSE copies["keyserver"].version
<1>4. n >= pub.armored /\ n >= 0 /\ n <= version /\ n \in Versions \cup {NoKey}
  BY <1>1, <1>2, <1>3
<1>5. copies' = [copies EXCEPT !["keyserver"] = [st |-> "ok", version |-> n]]
  OBVIOUS
<1> HIDE DEF n
<1> QED BY <1>1, <1>4, <1>5

\* The upload to the keyserver.
LEMMA KeyserverStep == ASSUME PubInv, PublishToKeyserver PROVE PubInv'
<1> DEFINE next == After("keyserver", pub.want)
<1>1. /\ At("keyserver") /\ UNCHANGED <<uid, version>> /\ pub' = [pub EXCEPT !.step = next]
      /\ pub.want \in SUBSET Places
  BY DEF PublishToKeyserver, NextPlace, Goto, PubInv, Typed
<1>2. next = IF "github" \in pub.want THEN "github" ELSE IF "wkd" \in pub.want THEN "wkd"
             ELSE IF "file" \in pub.want THEN "file" ELSE "done"
  BY <1>1, NextOf
<1> HIDE DEF next
<1>3. /\ copies' \in [Copies -> [st : {"absent", "torn", "ok"}, version : Versions \cup {NoKey}]]
      /\ copies'["keyserver"].st = "ok"
      /\ copies'["keyserver"].version >= pub.armored
      /\ copies'["keyserver"].version >= 0
      /\ copies'["keyserver"].version <= version
      /\ \A place \in Copies : place # "keyserver" => copies'[place] = copies[place]
  BY <1>1, KeyserverHas DEF PublishToKeyserver
<1>4. /\ pub'.step = next /\ pub'.want = pub.want /\ pub'.armored = pub.armored
      /\ pub'.wkd = pub.wkd /\ next \in Steps
  BY <1>1, <1>2 DEF PubInv, Typed, Steps
<1>5. Typed'
  BY <1>1, <1>3, <1>4 DEF PubInv, Typed
<1>6. Older'
  BY <1>1, <1>2, <1>3, <1>4 DEF PubInv, Older, At, Copies
<1>7. \A place \in Copies : place \in pub.want /\ Past(next, place) => place = "keyserver"
  BY <1>2 DEF Past, Copies
<1>8. Reached'
  BY <1>3, <1>4, <1>7 DEF Reached
<1> QED BY <1>5, <1>6, <1>8 DEF PubInv

\* The upload whose answer is lost.
LEMMA LostStep == ASSUME PubInv, AnswerLost PROVE PubInv'
<1>1. At("keyserver") /\ UNCHANGED <<uid, version>> /\ pub' = Idle
  BY DEF AnswerLost, End
<1>2. /\ copies' \in [Copies -> [st : {"absent", "torn", "ok"}, version : Versions \cup {NoKey}]]
      /\ copies'["keyserver"].version >= 0
      /\ copies'["keyserver"].version <= version
      /\ \A place \in Copies : place # "keyserver" => copies'[place] = copies[place]
  BY KeyserverHas DEF AnswerLost
<1>3. Typed'
  BY <1>1, <1>2 DEF PubInv, Typed, Idle, Steps, Places, Copies
<1>4. Older'
  BY <1>1, <1>2 DEF PubInv, Older, Idle, Copies
<1>5. Reached'
  BY <1>1 DEF Reached, Idle
<1> QED BY <1>3, <1>4, <1>5 DEF PubInv

\* GitHub.
LEMMA GithubStep == ASSUME PubInv, PublishToGithub PROVE PubInv'
<1> DEFINE next == After("github", pub.want)
<1>1. /\ At("github") /\ UNCHANGED <<uid, version, copies>> /\ pub' = [pub EXCEPT !.step = next]
      /\ pub.want \in SUBSET Places
  BY DEF PublishToGithub, NextPlace, Goto, PubInv, Typed
<1>2. next = IF "wkd" \in pub.want THEN "wkd" ELSE IF "file" \in pub.want THEN "file" ELSE "done"
  BY <1>1, NextOf
<1> HIDE DEF next
<1>3. /\ pub'.step = next /\ pub'.want = pub.want /\ pub'.armored = pub.armored
      /\ pub'.wkd = pub.wkd /\ next \in Steps
  BY <1>1, <1>2 DEF PubInv, Typed, Steps
<1>4. Typed'
  BY <1>1, <1>3 DEF PubInv, Typed
<1>5. Older'
  BY <1>1, <1>2, <1>3 DEF PubInv, Older, At
<1>6. \A place \in Copies : place \in pub.want /\ Past(next, place) => Past("github", place)
  BY <1>2 DEF Past, Copies
<1>7. Reached'
  BY <1>1, <1>3, <1>6 DEF PubInv, Reached, At
<1> QED BY <1>4, <1>5, <1>7 DEF PubInv

\* The key is loaded again for the directory: it is no older than the armored one.
LEMMA LoadStep == ASSUME PubInv, LoadForWkd PROVE PubInv'
<1>1. /\ At("wkd") /\ UNCHANGED <<uid, version, copies>>
      /\ pub' = [pub EXCEPT !.step = "wkd open", !.wkd = version]
  BY DEF LoadForWkd
<1>2. uid = "mail"
  BY UserIdAssumption DEF LoadForWkd, WkdPath, Address, PubInv, Typed
<1>3. /\ pub'.step = "wkd open" /\ pub'.want = pub.want /\ pub'.armored = pub.armored
      /\ pub'.wkd = version
  BY <1>1 DEF PubInv, Typed
<1>4. Typed'
  BY <1>1 DEF PubInv, Typed, Steps
<1>5. Older'
  <2>1. version <= version /\ pub.armored <= version /\ version \in Int /\ pub.armored \in Int
    BY <1>1, Numbers DEF PubInv, Older, At
  <2>2. uid' = "mail" /\ pub'.wkd >= pub'.armored /\ pub'.wkd <= version'
    BY <1>1, <1>2, <1>3, <2>1
  <2>3. pub'.step # "idle" => pub'.armored >= 0 /\ pub'.armored <= version'
    BY <1>1, <1>3 DEF PubInv, Older, At
  <2> QED BY <1>1, <2>2, <2>3 DEF PubInv, Older
<1>6. Reached'
  BY <1>1, <1>3 DEF PubInv, Reached, At, Past
<1> QED BY <1>4, <1>5, <1>6 DEF PubInv

\* A file that is written: torn, and then whole.
LEMMA TearStep ==
  ASSUME PubInv, NEW place \in {"wkd", "file"},
         (TruncateWkd /\ place = "wkd") \/ (TruncateFile /\ place = "file")
  PROVE  PubInv'
<1> DEFINE from == IF place = "wkd" THEN "wkd open" ELSE "file"
<1> DEFINE to == IF place = "wkd" THEN "wkd fill" ELSE "file fill"
<1>1. /\ pub.step = from /\ UNCHANGED <<uid, version>> /\ pub' = [pub EXCEPT !.step = to]
      /\ copies' = [copies EXCEPT ![place].st = "torn"]
  BY DEF TruncateWkd, TruncateFile, At, Goto
<1>2. /\ pub'.step = to /\ pub'.want = pub.want /\ pub'.armored = pub.armored
      /\ pub'.wkd = pub.wkd
  BY <1>1 DEF PubInv, Typed
<1>3. /\ place \in Copies /\ copies'[place].st = "torn"
      /\ copies'[place].version = copies[place].version
      /\ \A other \in Copies : other # place => copies'[other] = copies[other]
  BY <1>1 DEF PubInv, Typed, Copies
<1>4. Typed'
  BY <1>1, <1>3 DEF PubInv, Typed, Steps, Copies
<1>5. Older'
  <2>1. \A other \in Copies : copies'[other].version <= version'
    BY <1>1, <1>3, CopiesOlder
  <2>2. \A other \in Copies : copies'[other].st = "ok" => copies'[other].version >= 0
    BY <1>3, CopiesOlder
  <2>3. pub.step # "idle" /\ (to = "wkd fill" => pub.step = "wkd open")
    BY <1>1
  <2>4. pub.armored >= 0 /\ pub.armored <= version
    BY <2>3 DEF PubInv, Older
  <2>5. to = "wkd fill" => uid = "mail" /\ pub.wkd >= pub.armored /\ pub.wkd <= version
    BY <2>3 DEF PubInv, Older
  <2>6. copies'["wkd"].st # "absent" => uid' = "mail"
    <3>1. CASE place = "wkd"
      BY <1>1, <2>5, <3>1
    <3>2. CASE place # "wkd"
      BY <1>1, <1>3, <3>2, CopiesOlder DEF Copies
    <3> QED BY <3>1, <3>2
  <2>7. to \in {"wkd open", "wkd fill"} => to = "wkd fill"
    OBVIOUS
  <2> HIDE DEF to, from
  <2> QED BY <1>1, <1>2, <2>1, <2>2, <2>4, <2>5, <2>6, <2>7 DEF Older
<1>6. \A other \in Copies : Past(to, other) => Past(from, other) /\ other # place
  BY DEF Past, Copies
<1>7. Reached'
  BY <1>1, <1>2, <1>3, <1>6 DEF PubInv, Reached
<1> QED BY <1>4, <1>5, <1>7 DEF PubInv

\* The file in the directory is whole again.
LEMMA FillWkdStep == ASSUME PubInv, FillWkd PROVE PubInv'
<1> DEFINE next == After("wkd", pub.want)
<1>1. /\ pub.step = "wkd fill" /\ UNCHANGED <<uid, version>>
      /\ copies' = [copies EXCEPT !["wkd"] = [st |-> "ok", version |-> pub.wkd]]
      /\ pub' = [pub EXCEPT !.step = next, !.wkd = NoKey]
      /\ pub.want \in SUBSET Places
  BY DEF FillWkd, At, PubInv, Typed
<1>2. next = IF "file" \in pub.want THEN "file" ELSE "done"
  BY <1>1, NextOf
<1> HIDE DEF next
<1>3. /\ pub'.step = next /\ pub'.want = pub.want /\ pub'.armored = pub.armored /\ next \in Steps
  BY <1>1, <1>2 DEF PubInv, Typed, Steps
<1>4. /\ copies'["wkd"] = [st |-> "ok", version |-> pub.wkd]
      /\ \A place \in Copies : place # "wkd" => copies'[place] = copies[place]
  BY <1>1 DEF PubInv, Typed, Copies
<1>5. /\ uid = "mail" /\ pub.wkd >= pub.armored /\ pub.wkd <= version /\ pub.armored >= 0
      /\ pub.armored <= version
  BY <1>1 DEF PubInv, Older
<1>6. Typed'
  BY <1>1, <1>3 DEF PubInv, Typed, Copies
<1>7. Older'
  <2>1. pub.wkd \in Int /\ pub.armored \in Int /\ "wkd" \in Copies
    BY Numbers DEF PubInv, Copies
  <2>2. pub.wkd >= 0
    BY <1>5, <2>1
  <2>3. copies'["wkd"].version = pub.wkd
    BY <1>4
  <2>5. pub'.step \notin {"wkd open", "wkd fill"}
    BY <1>2, <1>3
  <2>6. \A place \in Copies : copies'[place].version <= version'
    BY <1>1, <1>4, <1>5, <2>3, CopiesOlder
  <2>7. \A place \in Copies : copies'[place].st = "ok" => copies'[place].version >= 0
    BY <1>4, <2>2, <2>3, CopiesOlder
  <2>8. uid' = "mail" /\ pub'.armored >= 0 /\ pub'.armored <= version'
    BY <1>1, <1>3, <1>5
  <2> QED BY <2>5, <2>6, <2>7, <2>8 DEF Older
<1>8. \A place \in Copies : place \in pub.want /\ Past(next, place) => place \in {"keyserver", "wkd"}
  BY <1>2 DEF Past, Copies
<1>9. Reached'
  <2>1. \A place \in Copies : place \in pub.want /\ place = "keyserver" =>
          copies[place].st = "ok" /\ copies[place].version >= pub.armored
    BY <1>1 DEF PubInv, Reached, Past
  <2>2. SUFFICES ASSUME NEW place \in Copies, place \in pub'.want, Past(pub'.step, place)
                 PROVE  copies'[place].st = "ok" /\ copies'[place].version >= pub'.armored
    BY DEF Reached
  <2>3. place \in {"keyserver", "wkd"} /\ place \in pub.want
    BY <1>3, <1>8, <2>2
  <2>4. CASE place = "wkd"
    BY <1>3, <1>4, <1>5, <2>4
  <2>5. CASE place # "wkd"
    BY <1>3, <1>4, <2>1, <2>2, <2>3, <2>5
  <2> QED BY <2>4, <2>5
<1> QED BY <1>6, <1>7, <1>9 DEF PubInv

\* The exported file is whole again.
LEMMA FillFileStep == ASSUME PubInv, FillFile PROVE PubInv'
<1>1. /\ pub.step = "file fill" /\ UNCHANGED <<uid, version>>
      /\ copies' = [copies EXCEPT !["file"] = [st |-> "ok", version |-> pub.armored]]
      /\ pub' = [pub EXCEPT !.step = "done"]
  BY DEF FillFile, At, Goto
<1>2. /\ pub'.step = "done" /\ pub'.want = pub.want /\ pub'.armored = pub.armored
  BY <1>1 DEF PubInv, Typed
<1>3. /\ copies'["file"] = [st |-> "ok", version |-> pub.armored]
      /\ \A place \in Copies : place # "file" => copies'[place] = copies[place]
  BY <1>1 DEF PubInv, Typed, Copies
<1>4. pub.armored >= 0 /\ pub.armored <= version
  BY <1>1 DEF PubInv, Older
<1>5. Typed'
  BY <1>1 DEF PubInv, Typed, Copies, Steps
<1>6. Older'
  <2>1. copies'["file"].version = pub.armored
    BY <1>3
  <2>3. copies'["wkd"].st # "absent" => uid' = "mail"
    BY <1>1, <1>3, CopiesOlder DEF Copies
  <2>4. \A place \in Copies : copies'[place].version <= version'
    BY <1>1, <1>3, <1>4, <2>1, CopiesOlder
  <2>5. \A place \in Copies : copies'[place].st = "ok" => copies'[place].version >= 0
    BY <1>3, <1>4, <2>1, CopiesOlder
  <2>6. pub'.step \notin {"wkd open", "wkd fill"} /\ pub'.armored >= 0 /\ pub'.armored <= version'
    BY <1>1, <1>2, <1>4
  <2> QED BY <2>3, <2>4, <2>5, <2>6 DEF Older
<1>7. Reached'
  <2>1. \A place \in Copies : place \in pub.want /\ place # "file" =>
          copies[place].st = "ok" /\ copies[place].version >= pub.armored
    BY <1>1 DEF PubInv, Reached, Past, Copies
  <2>2. pub.armored >= pub.armored
    BY Numbers DEF PubInv
  <2> QED BY <1>2, <1>3, <2>1, <2>2 DEF Reached
<1> QED BY <1>5, <1>6, <1>7 DEF PubInv

\* Every step keeps the invariant.
LEMMA PubNext == ASSUME PubInv, [Next]_vars PROVE PubInv'
<1>1. CASE UNCHANGED vars
  BY <1>1 DEF vars, PubInv, Typed, Older, Reached
<1>2. CASE ChangeKey
  BY <1>2, ChangeStep
<1>3. CASE \E want \in SUBSET Places : Begin(want)
  BY <1>3, BeginStep
<1>4. CASE Publish
  <2>1. CASE NoAddress
    BY <2>1, EndStep DEF NoAddress
  <2>2. CASE Done
    BY <2>2, EndStep DEF Done
  <2>3. ASSUME NEW place \in {"wkd", "file"},
               (TruncateWkd /\ place = "wkd") \/ (TruncateFile /\ place = "file")
        PROVE  PubInv'
    BY <2>3, TearStep
  <2>4. TruncateWkd \/ TruncateFile => \E place \in {"wkd", "file"} :
          (TruncateWkd /\ place = "wkd") \/ (TruncateFile /\ place = "file")
    OBVIOUS
  <2>5. CASE PublishToKeyserver
    BY <2>5, KeyserverStep
  <2>6. CASE PublishToGithub
    BY <2>6, GithubStep
  <2>7. CASE LoadForWkd
    BY <2>7, LoadStep
  <2>8. CASE FillWkd
    BY <2>8, FillWkdStep
  <2>9. CASE FillFile
    BY <2>9, FillFileStep
  <2> QED BY <1>4, <2>1, <2>2, <2>3, <2>4, <2>5, <2>6, <2>7, <2>8, <2>9 DEF Publish
<1>5. CASE Abort
  BY <1>5, EndStep DEF Abort
<1>6. CASE AnswerLost
  BY <1>6, LostStep
<1> QED BY <1>1, <1>2, <1>3, <1>4, <1>5, <1>6 DEF Next

\* The invariant, in every state of every behaviour.
THEOREM Invariant == Spec => []PubInv
<1>1. PubInv /\ [Next]_vars => PubInv'
  BY PubNext
<1> QED BY <1>1, PubInit, PTL DEF Spec

\* TypeOK: what a place has is a key, and none that is yet to come.
THEOREM TypeCorrect == Spec => []TypeOK
<1>1. PubInv => TypeOK
  <2> SUFFICES ASSUME PubInv PROVE TypeOK
    OBVIOUS
  <2>1. \A place \in Copies : copies[place].version \in Int /\ version \in Int
    BY Numbers DEF PubInv
  <2>2. \A place \in Copies : copies[place].st = "ok" =>
          0 <= copies[place].version /\ copies[place].version <= version
    BY <2>1 DEF PubInv, Older
  <2>3. \A place \in Copies : copies[place].st = "ok" => copies[place].version \in 0..version
    BY <2>1, <2>2
  <2> QED BY <2>3 DEF PubInv, Typed, Older, TypeOK
<1> QED BY <1>1, Invariant, PTL

\* PublishedEverywhere: when `key publish` reports success (run_publish) every place it
\* was told has at least the key of the start, however often the key changes meanwhile.
THEOREM SuccessIsEverywhere == Spec => []PublishedEverywhere
<1>1. PubInv => PublishedEverywhere
  BY DEF PubInv, Reached, PublishedEverywhere, Past, At
<1> QED BY <1>1, Invariant, PTL
=============================================================================
