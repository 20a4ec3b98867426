---------------------------- MODULE KeyCommands ----------------------------
(***************************************************************************)
(* What the owner types and what it does: how `key renew` and `key rotate` *)
(* find the identity that a name, an address or some digits stand for, how *)
(* every command comes by a passphrase, and how `key create` and `rotate`  *)
(* choose an algorithm, over a store of several identities whose metadata  *)
(* may be torn, lost and restored.                                         *)
(***************************************************************************)
EXTENDS Naturals, Sequences, FiniteSets

CONSTANTS
  Ids,          \* identities
  Words,        \* passphrases
  MaxChanges,   \* bound: changes of one key
  None          \* not given, or nobody

ASSUME NoneAssumption == None \notin Ids /\ None \notin Words
ASSUME IdAssumption == IsFiniteSet(Ids)

KeyTypes == {"ed25519", "rsa4096"}
Garbage == "garbage"
Empty == ""
Refused == "refused"

VARIABLES
  meta,    \* of each identity: the metadata file and the key type in it
  key,     \* of each identity: the key file, its passphrase and its algorithms
  last     \* the last command that named an identity: whom it meant, whom it changed

vars == <<meta, key, last>>

NoMeta == [st |-> "absent", type |-> "ed25519"]
NoKey == [lock |-> None]
Quiet == [meant |-> None, did |-> None]

Init ==
  /\ meta = [i \in Ids |-> NoMeta]
  /\ key = [i \in Ids |-> NoKey]
  /\ last = Quiet
-----------------------------------------------------------------------------
(* Finding an identity.  What counts of a query is whom it matches, and in *)
(* which way: a full fingerprint is its own prefix and suffix, and nobody  *)
(* else's; digits can occur in a name, too.                                *)

Ways == <<"fingerprint", "prefix", "key id", "name">>

Queries ==
  {q \in SUBSET ({"fingerprint", "prefix", "key id", "name"} \X Ids) :
     \A i \in Ids : <<"fingerprint", i>> \in q =>
       \A j \in Ids : \A way \in {"fingerprint", "prefix", "key id"} :
         <<way, j>> \in q <=> i = j}

\* load_all leaves out what it cannot read.
LoadAll == {i \in Ids : meta[i].st = "ok"}

\* Mutant: a way that leads to several is passed over.
FindFirst(q, all) ==
  LET hits == [w \in DOMAIN Ways |-> {i \in all : <<Ways[w], i>> \in q}]
  IN  UNION {hits[w] : w \in {v \in DOMAIN Ways :
               Cardinality(hits[v]) = 1 /\ \A u \in 1..(v - 1) : Cardinality(hits[u]) # 1}}

\* The first way that leads to anybody decides, and only if it leads to just one.
FindIdentity(q, all) ==
  LET hits == [w \in DOMAIN Ways |-> {i \in all : <<Ways[w], i>> \in q}]
  IN  UNION {hits[w] : w \in {v \in DOMAIN Ways :
               Cardinality(hits[v]) = 1 /\ \A u \in 1..(v - 1) : hits[u] = {}}}

\* normalize_key_id and Fingerprint::from_str: the whole fingerprint and nothing else,
\* for the commands that do not look for an identity.
ParseFingerprint(q) == {i \in Ids : <<"fingerprint", i>> \in q}
-----------------------------------------------------------------------------
(* Passphrases.  A text is a word with or without blanks around it.        *)

Texts == [word : Words \cup {Empty}, padded : BOOLEAN]
Trimmed(text) == [text EXCEPT !.padded = FALSE]

\* Mutant: the blanks count, but those on stdin are taken off.
ParseUntrimmed(text) == text
\* Passphrase::from_str.  What is left without a word is refused.
ParsePassphrase(text) == Trimmed(text)

Sources == <<"flag", "stdin", "env", "prompt">>

\* The owner gives one or two of them; the prompt is there for whom it asks.
Inputs == {in \in [{"flag", "stdin", "env", "prompt"} -> Texts \cup {None}] :
             Cardinality({s \in DOMAIN in : in[s] # None}) \in 1..2}

\* An empty variable is no variable, and there is no prompt in batch mode.
Given(in, batch) ==
  {n \in DOMAIN Sources :
     /\ in[Sources[n]] # None
     /\ Sources[n] = "env" => in.env # [word |-> Empty, padded |-> FALSE]
     /\ Sources[n] = "prompt" => ~batch}

\* What counts is the first that is given, good or not: the word in it, and what
\* resolve_secret makes of it.
ResolveSecret(in, batch) ==
  LET source == Sources[CHOOSE n \in Given(in, batch) : \A k \in Given(in, batch) : n <= k]
      text == IF source = "stdin" THEN Trimmed(in.stdin) ELSE in[source]
  IN  [word |-> text.word, secret |-> ParsePassphrase(text)]

Secrets ==
  {ResolveSecret(c[1], c[2]) : c \in {d \in Inputs \X BOOLEAN : Given(d[1], d[2]) # {}}}
-----------------------------------------------------------------------------
(* Algorithms.                                                             *)

Firmwares == {4, 5, 6} \X {1, 2, 3} \X {2, 3, 4}

\* Mutant: each number is compared for itself.
BestKeyTypeEach(fw) ==
  IF fw[1] > 5 \/ (fw[1] = 5 /\ fw[2] >= 2 /\ fw[3] >= 3) THEN "ed25519" ELSE "rsa4096"
\* best_key_type_for_firmware.
BestKeyType(fw) ==
  IF fw[1] > 5 \/ (fw[1] = 5 /\ (fw[2] > 2 \/ (fw[2] = 2 /\ fw[3] >= 3)))
  THEN "ed25519" ELSE "rsa4096"

ParseKeyType(text) == IF text \in KeyTypes THEN text ELSE Refused

\* KdubConfig::load: the variable, even an empty one, over the file over the default; a
\* file that is no configuration is an error.
LoadConfig(env, file) ==
  IF file = Refused THEN Refused
  ELSE IF env # None THEN env
  ELSE IF file # None THEN file
  ELSE "ed25519"

\* resolve_key_type: --key-type, the connected YubiKey, KDUB_KEY_TYPE, config.toml.
ResolveKeyType(flag, fw, env, file) ==
  IF flag # None THEN ParseKeyType(flag)
  ELSE IF fw # None THEN BestKeyType(fw)
  ELSE IF env \notin {None, Empty} THEN ParseKeyType(env)
  ELSE IF LoadConfig(env, file) \in KeyTypes \cup {Refused} THEN LoadConfig(env, file)
  ELSE "ed25519"

\* Every key type that `key create` can come to, and the YubiKey that decided it.
Choices ==
  {[type |-> ResolveKeyType(c[1], c[2], c[3], c[4]), card |-> IF c[1] = None THEN c[2] ELSE None] :
     c \in (KeyTypes \cup {Garbage, None}) \X (Firmwares \cup {None})
           \X (KeyTypes \cup {Garbage, Empty, None}) \X (KeyTypes \cup {Garbage, Refused, None})}

\* The algorithm of a new key, and of subkeys that come later.
Created(type) == IF type = "ed25519" THEN "Ed25519Legacy" ELSE "Rsa"
Rotated(type) == IF type = "ed25519" THEN "Ed25519" ELSE "Rsa"
DetectKeyType(algorithm) == IF algorithm = "Rsa" THEN "rsa4096" ELSE "ed25519"

\* A YubiKey has Ed25519 from version 5.2.3 on, and the import knows its older form only.
Before523(fw) ==
  \E n \in 1..3 : fw[n] < <<5, 2, 3>>[n] /\ \A k \in 1..(n - 1) : fw[k] = <<5, 2, 3>>[k]
Takes(fw, algorithm) ==
  \/ algorithm = "Rsa"
  \/ algorithm = "Ed25519Legacy" /\ ~Before523(fw)
Best(fw, algorithm) ==
  Takes(fw, algorithm) /\ (algorithm = "Rsa" => ~Takes(fw, "Ed25519Legacy"))
-----------------------------------------------------------------------------
(* The commands.  Each saves the metadata of one identity, and may die      *)
(* there.                                                                  *)

SaveMeta(i, type) == \E st \in {"ok", "torn"} : meta' = [meta EXCEPT ![i] = [st |-> st, type |-> type]]

\* The metadata comes first; without it there will be no key.
Create(i) ==
  /\ meta[i].st = "absent" /\ key[i] = NoKey
  /\ \E choice \in Choices, given \in Secrets :
       /\ choice.type # Refused /\ given.word # Empty
       /\ SaveMeta(i, choice.type)
       /\ key' = IF meta'[i].st = "torn" THEN key
                 ELSE [key EXCEPT ![i] = [lock |-> given.secret, word |-> given.word, card |->
                         choice.card = None \/ Best(choice.card, Created(choice.type)),
                         primary |-> Created(choice.type), subkeys |-> <<Created(choice.type)>>]]
  /\ last' = Quiet

\* The one whom the query fits better than it fits any other, when the word is right.
BestWay(q, i) == CHOOSE w \in 1..5 :
  /\ w = 5 \/ <<Ways[w], i>> \in q
  /\ \A v \in 1..(w - 1) : <<Ways[v], i>> \notin q
Meant(q, word) ==
  {i \in LoadAll : /\ BestWay(q, i) < 5
                   /\ \A j \in LoadAll \ {i} : BestWay(q, i) < BestWay(q, j)
                   /\ key[i] # NoKey /\ key[i].word = word}
TheOne(ids) == IF ids = {} THEN None ELSE CHOOSE i \in ids : TRUE

\* `key renew` and `key rotate` of whom the query finds: the key and then the metadata.
\* With a passphrase that does not open the key nothing is changed; with one, the subkeys
\* that are added come after the others.
Change(q, given, added) ==
  LET reached == {i \in FindIdentity(q, LoadAll) :
                    key[i] # NoKey /\ given.secret = key[i].lock}
  IN  /\ last' = [meant |-> TheOne(Meant(q, given.word)), did |-> TheOne(reached)]
      /\ \/ reached = {} /\ UNCHANGED <<meta, key>>
         \/ \E i \in reached :
              /\ key' = [key EXCEPT ![i].subkeys = @ \o added[i]]
              /\ SaveMeta(i, meta[i].type)

Renew(q, given) == Change(q, given, [i \in Ids |-> <<>>])

\* Mutant: the metadata is told of the new key type.
RotateTells(q, given, flag) ==
  LET NewType(i) == ParseKeyType(IF flag = None THEN meta[i].type ELSE flag)
  IN  /\ \A i \in FindIdentity(q, LoadAll) :
           /\ NewType(i) # Refused
           /\ key[i] # NoKey => Len(key[i].subkeys) <= MaxChanges
      /\ \E i \in FindIdentity(q, LoadAll) :
           /\ key[i] # NoKey /\ given.secret = key[i].lock
           /\ key' = [key EXCEPT ![i].subkeys = Append(@, Rotated(NewType(i)))]
           /\ SaveMeta(i, NewType(i))
      /\ last' = Quiet

\* The new subkeys are of the type asked for or else of the one in the metadata, which
\* goes on to tell that of the primary key.
Rotate(q, given, flag) ==
  LET NewType(i) == ParseKeyType(IF flag = None THEN meta[i].type ELSE flag)
  IN  /\ \A i \in FindIdentity(q, LoadAll) :
           /\ NewType(i) # Refused
           /\ key[i] # NoKey => Len(key[i].subkeys) <= MaxChanges
      /\ Change(q, given, [i \in Ids |-> <<Rotated(NewType(i))>>])

\* What the owner has to do with metadata that is torn, and may do with any.
RemoveMeta(i) ==
  /\ meta[i].st # "absent"
  /\ meta' = [meta EXCEPT ![i] = NoMeta]
  /\ last' = Quiet /\ UNCHANGED key

\* `key backup`, which stamps the metadata.
Backup(q) ==
  /\ \E i \in ParseFingerprint(q) :
       /\ key[i] # NoKey /\ meta[i].st = "ok"
       /\ SaveMeta(i, meta[i].type)
  /\ last' = Quiet /\ UNCHANGED key

\* `key restore`, from a backup that is up to date.
Restore(q) ==
  /\ \E i \in ParseFingerprint(q) :
       /\ key[i] # NoKey /\ meta[i].st # "torn"
       /\ SaveMeta(i, IF meta[i].st = "ok" THEN meta[i].type ELSE DetectKeyType(key[i].primary))
  /\ last' = Quiet /\ UNCHANGED key

Next ==
  \/ \E i \in Ids : Create(i) \/ RemoveMeta(i)
  \/ \E q \in Queries : Backup(q) \/ Restore(q)
  \/ \E q \in Queries, given \in Secrets :
       \/ Renew(q, given)
       \/ \E flag \in KeyTypes \cup {Garbage, None} : Rotate(q, given, flag)

Spec == Init /\ [][Next]_vars
-----------------------------------------------------------------------------
\* The type of every variable; metadata that can be read tells the type of the primary
\* key, through rotations to another type, torn and lost metadata and restores.
TypeOK ==
  /\ \A i \in Ids :
       /\ meta[i] \in [st : {"absent", "torn", "ok"}, type : KeyTypes]
       /\ key[i] = NoKey \/
          /\ key[i] \in [lock : Texts, word : Words, card : BOOLEAN,
                         primary : {"Ed25519Legacy", "Rsa"},
                         subkeys : Seq({"Ed25519Legacy", "Ed25519", "Rsa"})]
          /\ meta[i].st = "ok" => meta[i].type = DetectKeyType(key[i].primary)
  /\ last \in [meant : Ids \cup {None}, did : Ids \cup {None}]

\* `key renew` and `key rotate` change the key of the identity that the query fits best
\* of those whose metadata can be read, nobody's when it fits two equally well, and
\* they do so exactly when the owner gives the word that the key was created with, by
\* whatever of the four ways, with blanks around it or without (find_identity: "Returns
\* an error if zero or more than one identity matches").
ChangesTheOneMeant == last.did = last.meant

\* A key that was created without --key-type while a YubiKey was connected can be
\* imported into it, and is of RSA only when the YubiKey has nothing better
\* (detect_key_type: "the best key type for the connected YubiKey").
CardTakesNewKey == \A i \in Ids : key[i] # NoKey => key[i].card
=============================================================================
