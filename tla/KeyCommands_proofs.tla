------------------------- MODULE KeyCommands_proofs -------------------------
(***************************************************************************)
(* Proofs about KeyCommands, for any number of identities and any words.   *)
(* The invariant says that a key is locked with the word it was created    *)
(* with, without blanks, and that its metadata tells its algorithm.        *)
(***************************************************************************)
EXTENDS KeyCommands, FiniteSetTheorems, TLAPS

MetaRecord == [st : {"absent", "torn", "ok"}, type : KeyTypes]
KeyRecord ==
  [lock : Texts, word : Words, card : BOOLEAN, primary : {"Ed25519Legacy", "Rsa"},
   subkeys : Seq({"Ed25519Legacy", "Ed25519", "Rsa"})]

Lock(word) == [word |-> word, padded |-> FALSE]

\* A key that there is.
Sound(k, m) ==
  /\ k.lock = Lock(k.word) /\ k.card = TRUE
  /\ m.st = "ok" => m.type = DetectKeyType(k.primary)

KCInv ==
  /\ meta \in [Ids -> MetaRecord]
  /\ key \in [Ids -> KeyRecord \cup {NoKey}]
  /\ \A i \in Ids : key[i] # NoKey => Sound(key[i], meta[i])
  /\ last \in [meant : Ids \cup {None}, did : Ids \cup {None}]
  /\ last.did = last.meant
-----------------------------------------------------------------------------
(* Finding an identity.                                                    *)

\* BestWay is the first way in which the query matches an identity, or 5.
LEMMA BestWayIs ==
  ASSUME NEW q, NEW i
  PROVE  LET w == BestWay(q, i) IN
         /\ w \in 1..5
         /\ w = 5 \/ <<Ways[w], i>> \in q
         /\ \A v \in 1..(w - 1) : <<Ways[v], i>> \notin q
<1> DEFINE P(w) == /\ w = 5 \/ <<Ways[w], i>> \in q
                   /\ \A v \in 1..(w - 1) : <<Ways[v], i>> \notin q
<1>1. \E w \in 1..5 : P(w)
  <2>1. CASE <<Ways[1], i>> \in q
    BY <2>1
  <2>2. CASE <<Ways[1], i>> \notin q /\ <<Ways[2], i>> \in q
    <3>1. \A v \in 1..(2 - 1) : v = 1
      OBVIOUS
    <3>2. P(2)
      BY <2>2, <3>1
    <3> QED BY <3>2
  <2>3. CASE <<Ways[1], i>> \notin q /\ <<Ways[2], i>> \notin q /\ <<Ways[3], i>> \in q
    <3>1. \A v \in 1..(3 - 1) : v = 1 \/ v = 2
      OBVIOUS
    <3>2. P(3)
      BY <2>3, <3>1
    <3> QED BY <3>2
  <2>4. CASE /\ <<Ways[1], i>> \notin q /\ <<Ways[2], i>> \notin q
             /\ <<Ways[3], i>> \notin q /\ <<Ways[4], i>> \in q
    <3>1. \A v \in 1..(4 - 1) : v = 1 \/ v = 2 \/ v = 3
      OBVIOUS
    <3>2. P(4)
      BY <2>4, <3>1
    <3> QED BY <3>2
  <2>5. CASE /\ <<Ways[1], i>> \notin q /\ <<Ways[2], i>> \notin q
             /\ <<Ways[3], i>> \notin q /\ <<Ways[4], i>> \notin q
    <3>1. \A v \in 1..(5 - 1) : v = 1 \/ v = 2 \/ v = 3 \/ v = 4
      OBVIOUS
    <3>2. P(5)
      BY <2>5, <3>1
    <3> QED BY <3>2
  <2> QED BY <2>1, <2>2, <2>3, <2>4, <2>5
<1>2. BestWay(q, i) = CHOOSE w \in 1..5 : P(w)
  BY DEF BestWay
<1> HIDE DEF P
<1>3. BestWay(q, i) \in 1..5 /\ P(BestWay(q, i))
  BY <1>1, <1>2
<1> QED BY <1>3 DEF P

\* Whom the query fits better than anybody else of them.
Fits(q, i, all) ==
  /\ BestWay(q, i) < 5
  /\ \A j \in all \ {i} : BestWay(q, i) < BestWay(q, j)

\* find_identity finds those, and nobody else.
LEMMA FindsTheBest ==
  ASSUME NEW q, NEW all \in SUBSET Ids
  PROVE  FindIdentity(q, all) = {i \in all : Fits(q, i, all)}
<1> DEFINE H(w) == {i \in all : <<Ways[w], i>> \in q}
<1>1. DOMAIN Ways = 1..4
  BY DEF Ways
<1>2. \A w : Cardinality(H(w)) = 1 <=> \E x : H(w) = {x}
  <2>1. \A w : H(w) \in SUBSET Ids
    OBVIOUS
  <2> HIDE DEF H
  <2> QED BY <2>1, IdAssumption, FS_Subset, FS_Singleton
<1>3. \A i : i \in FindIdentity(q, all) <=>
        \E w \in 1..4 : /\ i \in H(w) /\ Cardinality(H(w)) = 1
                        /\ \A u \in 1..(w - 1) : H(u) = {}
  <2> DEFINE hits == [w \in 1..4 |-> H(w)]
  <2> DEFINE found == {v \in 1..4 : /\ Cardinality(hits[v]) = 1
                                   /\ \A u \in 1..(v - 1) : hits[u] = {}}
  <2>1. FindIdentity(q, all) = UNION {hits[w] : w \in found}
    BY <1>1 DEF FindIdentity
  <2>2. \A w \in 1..4 : hits[w] = H(w) /\ \A u \in 1..(w - 1) : hits[u] = H(u)
    <3> HIDE DEF H
    <3> QED OBVIOUS
  <2> HIDE DEF hits, H
  <2>3. \A w : w \in found <=> w \in 1..4 /\ Cardinality(H(w)) = 1
                                           /\ \A u \in 1..(w - 1) : H(u) = {}
    BY <2>2
  <2> HIDE DEF found
  <2>4. \A w \in found : hits[w] = H(w)
    BY <2>2, <2>3
  <2> QED BY <2>1, <2>3, <2>4
<1>4. \A i : /\ BestWay(q, i) \in 1..5
             /\ BestWay(q, i) = 5 \/ <<Ways[BestWay(q, i)], i>> \in q
             /\ \A v \in 1..(BestWay(q, i) - 1) : <<Ways[v], i>> \notin q
  BY BestWayIs
<1>5. \A i : BestWay(q, i) \in Int /\ 1 <= BestWay(q, i) /\ BestWay(q, i) <= 5
  <2> TAKE i
  <2>1. BestWay(q, i) \in 1..5
    BY BestWayIs
  <2> HIDE DEF BestWay
  <2> QED BY <2>1
<1>6. \A i, w : i \in H(w) <=> i \in all /\ <<Ways[w], i>> \in q
  OBVIOUS
<1> HIDE DEF H
<1>7. ASSUME NEW i, i \in FindIdentity(q, all) PROVE i \in all /\ Fits(q, i, all)
  <2>1. PICK w \in 1..4 : /\ i \in H(w) /\ Cardinality(H(w)) = 1
                          /\ \A u \in 1..(w - 1) : H(u) = {}
    BY <1>3, <1>7
  <2>2. H(w) = {i}
    BY <1>2, <2>1
  <2>3. i \in all /\ <<Ways[w], i>> \in q
    BY <1>6, <2>1
  <2>4. BestWay(q, i) <= w
    <3>1. ~(w \in 1..(BestWay(q, i) - 1))
      BY <1>4, <2>3
    <3>2. w \in Int /\ BestWay(q, i) \in Int /\ w >= 1
      BY <1>5
    <3> QED BY <3>1, <3>2
  <2>5. ASSUME NEW j \in all, j # i PROVE w < BestWay(q, j)
    <3>1. \A u \in 1..w : j \notin H(u)
      <4> TAKE u \in 1..w
      <4>1. CASE u = w
        BY <2>2, <2>5, <4>1
      <4>2. CASE u # w
        <5>1. u \in 1..(w - 1)
          BY <4>2
        <5> QED BY <2>1, <5>1
      <4> QED BY <4>1, <4>2
    <3>2. BestWay(q, j) = 5 \/ j \in H(BestWay(q, j))
      BY <1>4, <1>6
    <3>3. BestWay(q, j) \in 1..5
      BY <1>4
    <3> QED BY <3>1, <3>2, <3>3
  <2>6. BestWay(q, i) \in Int
    BY <1>5
  <2>7. BestWay(q, i) < 5
    BY <2>4, <2>6
  <2>8. \A j \in all \ {i} : BestWay(q, i) < BestWay(q, j)
    <3>1. \A j \in all \ {i} : w < BestWay(q, j) /\ BestWay(q, j) \in Int
      BY <1>5, <2>5
    <3> QED BY <2>4, <2>6, <3>1
  <2> QED BY <2>3, <2>7, <2>8 DEF Fits
<1>8. ASSUME NEW i \in all, Fits(q, i, all) PROVE i \in FindIdentity(q, all)
  <2> DEFINE w == BestWay(q, i)
  <2>1. w \in 1..5 /\ w < 5
    BY <1>5, <1>8 DEF Fits
  <2>2. i \in H(w)
    <3>1. w # 5 /\ (w = 5 \/ <<Ways[w], i>> \in q)
      BY <1>4, <2>1
    <3> HIDE DEF w
    <3> QED BY <1>6, <3>1
  <2>3. ASSUME NEW j \in all, j # i, NEW u \in 1..w PROVE j \notin H(u)
    <3>1. w < BestWay(q, j) /\ BestWay(q, j) \in Int
      BY <1>5, <1>8, <2>3 DEF Fits
    <3>2. u \in 1..(BestWay(q, j) - 1)
      BY <2>1, <3>1
    <3> QED BY <1>4, <1>6, <3>2
  <2>4. \A u \in 1..(w - 1) : i \notin H(u)
    BY <1>4, <1>6
  <2>5. \A u \in 1..(w - 1) : H(u) = {}
    <3> TAKE u \in 1..(w - 1)
    <3>1. u \in 1..w
      BY <2>1
    <3>2. \A j \in H(u) : j \in all
      BY <1>6
    <3> QED BY <2>3, <2>4, <3>1, <3>2
  <2>6. H(w) = {i}
    <3>1. w \in 1..w
      BY <2>1
    <3>2. \A j \in H(w) : j \in all
      BY <1>6
    <3> QED BY <2>2, <2>3, <3>1, <3>2
  <2>7. w \in 1..4
    BY <2>1
  <2> HIDE DEF w
  <2> QED BY <1>2, <1>3, <2>2, <2>5, <2>6, <2>7
<1> QED BY <1>7, <1>8
-----------------------------------------------------------------------------
(* Passphrases and algorithms.                                             *)

\* A passphrase is a word without blanks, whatever source it came from.
LEMMA SecretIsWord ==
  ASSUME NEW given \in Secrets
  PROVE  given.word \in Words \cup {Empty} /\ given.secret = Lock(given.word)
<1>1. PICK in \in Inputs, batch \in BOOLEAN :
        Given(in, batch) # {} /\ given = ResolveSecret(in, batch)
  BY DEF Secrets
<1> DEFINE P(n) == n \in Given(in, batch) /\ \A k \in Given(in, batch) : n <= k
<1> DEFINE first == CHOOSE n \in Given(in, batch) : \A k \in Given(in, batch) : n <= k
<1>2. Given(in, batch) \subseteq 1..4
  BY DEF Given, Sources
<1>3. \E n : P(n)
  <2>1. CASE 1 \in Given(in, batch)
    BY <1>2, <2>1
  <2>2. CASE 1 \notin Given(in, batch) /\ 2 \in Given(in, batch)
    BY <1>2, <2>2
  <2>3. CASE 1 \notin Given(in, batch) /\ 2 \notin Given(in, batch) /\ 3 \in Given(in, batch)
    BY <1>2, <2>3
  <2>4. CASE 1 \notin Given(in, batch) /\ 2 \notin Given(in, batch) /\ 3 \notin Given(in, batch)
    BY <1>1, <1>2, <2>4
  <2> QED BY <2>1, <2>2, <2>3, <2>4
<1>4. first \in Given(in, batch)
  BY <1>3
<1> DEFINE source == Sources[first]
<1>5. source \in {"flag", "stdin", "env", "prompt"} /\ in[source] # None
  <2> HIDE DEF first
  <2>1. \A n \in 1..4 : Sources[n] \in {"flag", "stdin", "env", "prompt"}
    BY DEF Sources
  <2>2. \A n \in Given(in, batch) : in[Sources[n]] # None
    BY DEF Given
  <2> QED BY <1>2, <1>4, <2>1, <2>2
<1>6. in[source] \in Texts
  BY <1>5 DEF Inputs
<1>7. given = LET text == IF source = "stdin" THEN Trimmed(in[source]) ELSE in[source]
              IN  [word |-> text.word, secret |-> ParsePassphrase(text)]
  BY <1>1 DEF ResolveSecret
<1> HIDE DEF first, source
<1>8. \A text \in Texts : /\ Trimmed(text) = Lock(text.word) /\ Trimmed(text) \in Texts
                          /\ Trimmed(text).word = text.word
                          /\ text.word \in Words \cup {Empty}
  <2> TAKE text \in Texts
  <2>1. text = [word |-> text.word, padded |-> text.padded] /\ text.word \in Words \cup {Empty}
    BY DEF Texts
  <2>2. [text EXCEPT !.padded = FALSE] = [word |-> text.word, padded |-> FALSE]
    <3> DEFINE t == [text EXCEPT !.padded = FALSE]
    <3>1. t \in Texts /\ t.word = text.word /\ t.padded = FALSE
      BY DEF Texts
    <3>2. \A r \in Texts : r = [word |-> r.word, padded |-> r.padded]
      BY DEF Texts
    <3> HIDE DEF t
    <3>3. t = [word |-> t.word, padded |-> t.padded]
      BY <3>1, <3>2
    <3> QED BY <3>1, <3>3 DEF t
  <2>3. Trimmed(text) = [word |-> text.word, padded |-> FALSE]
    BY <2>2 DEF Trimmed
  <2>4. Trimmed(text) \in Texts
    BY <2>1, <2>3 DEF Texts
  <2>5. Trimmed(text).word = text.word
    BY <2>3
  <2> QED BY <2>1, <2>3, <2>4, <2>5 DEF Lock
<1> QED BY <1>6, <1>7, <1>8 DEF ParsePassphrase

\* The firmware that has Ed25519, number by number.
LEMMA FirmwareOrder ==
  ASSUME NEW fw \in Firmwares
  PROVE  /\ fw[1] \in Nat /\ fw[2] \in Nat /\ fw[3] \in Nat
         /\ Before523(fw) <=> \/ fw[1] < 5
                              \/ fw[1] = 5 /\ fw[2] < 2
                              \/ fw[1] = 5 /\ fw[2] = 2 /\ fw[3] < 3
<1>1. fw[1] \in Nat /\ fw[2] \in Nat /\ fw[3] \in Nat
  <2>1. PICK a \in {4, 5, 6}, b \in {1, 2, 3}, c \in {2, 3, 4} : fw = <<a, b, c>>
    BY DEF Firmwares
  <2>2. fw[1] = a /\ fw[2] = b /\ fw[3] = c
    BY <2>1
  <2> HIDE <2>1
  <2>3. a \in Nat /\ b \in Nat /\ c \in Nat
    OBVIOUS
  <2> QED BY <2>2, <2>3
<1> DEFINE min == <<5, 2, 3>>
<1> DEFINE B(n) == fw[n] < min[n] /\ \A k \in 1..(n - 1) : fw[k] = min[k]
<1>2. min[1] = 5 /\ min[2] = 2 /\ min[3] = 3
  OBVIOUS
<1>3. Before523(fw) <=> \E n \in 1..3 : B(n)
  BY DEF Before523
<1> HIDE DEF min
<1>4. B(1) <=> fw[1] < 5
  BY <1>1, <1>2
<1>5. B(2) <=> fw[1] = 5 /\ fw[2] < 2
  <2>1. \A k : k \in 1..(2 - 1) <=> k = 1
    OBVIOUS
  <2> QED BY <1>1, <1>2, <2>1
<1>6. B(3) <=> fw[1] = 5 /\ fw[2] = 2 /\ fw[3] < 3
  <2>1. \A k : k \in 1..(3 - 1) <=> k \in {1, 2}
    OBVIOUS
  <2> QED BY <1>1, <1>2, <2>1
<1> HIDE DEF B
<1>7. (\E n \in 1..3 : B(n)) <=> B(1) \/ B(2) \/ B(3)
  <2>1. \A n : n \in 1..3 <=> n \in {1, 2, 3}
    OBVIOUS
  <2> QED BY <2>1
<1> QED BY <1>1, <1>3, <1>4, <1>5, <1>6, <1>7

\* What a YubiKey is given is the best that it takes.
LEMMA BestIsBest ==
  ASSUME NEW fw \in Firmwares
  PROVE  /\ BestKeyType(fw) \in KeyTypes
         /\ Best(fw, Created(BestKeyType(fw)))
<1>1. BestKeyType(fw) = "ed25519" <=> ~Before523(fw)
  BY FirmwareOrder DEF BestKeyType
<1>2. BestKeyType(fw) \in {"ed25519", "rsa4096"}
  BY DEF BestKeyType
<1>3. CASE BestKeyType(fw) = "ed25519"
  BY <1>1, <1>3 DEF KeyTypes, Best, Takes, Created
<1>4. CASE BestKeyType(fw) = "rsa4096"
  BY <1>1, <1>4 DEF KeyTypes, Best, Takes, Created
<1> QED BY <1>2, <1>3, <1>4

\* A key type that is chosen is one, and suits the YubiKey that decided.
LEMMA ChoiceIs ==
  ASSUME NEW choice \in Choices, choice.type # Refused
  PROVE  /\ choice.type \in KeyTypes
         /\ choice.card = None \/ Best(choice.card, Created(choice.type))
<1>1. PICK flag \in KeyTypes \cup {Garbage, None}, fw \in Firmwares \cup {None},
           env \in KeyTypes \cup {Garbage, Empty, None},
           file \in KeyTypes \cup {Garbage, Refused, None} :
        choice = [type |-> ResolveKeyType(flag, fw, env, file),
                  card |-> IF flag = None THEN fw ELSE None]
  BY DEF Choices
<1>2. choice.type = ResolveKeyType(flag, fw, env, file)
      /\ choice.card = IF flag = None THEN fw ELSE None
  BY <1>1
<1>3. \A text : ParseKeyType(text) \in KeyTypes \cup {Refused}
  BY DEF ParseKeyType
<1>4. CASE flag # None
  BY <1>2, <1>3, <1>4 DEF ResolveKeyType
<1>5. CASE flag = None /\ fw # None
  <2>1. choice.type = BestKeyType(fw) /\ fw \in Firmwares /\ choice.card = fw
    BY <1>2, <1>5 DEF ResolveKeyType
  <2> QED BY <2>1, BestIsBest
<1>6. CASE flag = None /\ fw = None
  BY <1>2, <1>3, <1>6 DEF ResolveKeyType, KeyTypes
<1> QED BY <1>4, <1>5, <1>6
-----------------------------------------------------------------------------
(* The steps.                                                              *)

\* At first there is nothing.
LEMMA KCInit == Init => KCInv
BY DEF Init, KCInv, NoMeta, Quiet, MetaRecord, KeyTypes

\* Saving the metadata of one identity leaves that of the others.
LEMMA Saved ==
  ASSUME meta \in [Ids -> MetaRecord], NEW i \in Ids, NEW type \in KeyTypes, SaveMeta(i, type)
  PROVE  /\ meta' \in [Ids -> MetaRecord]
         /\ meta'[i].type = type
         /\ \A j \in Ids : j # i => meta'[j] = meta[j]
<1>1. PICK st \in {"ok", "torn"} : meta' = [meta EXCEPT ![i] = [st |-> st, type |-> type]]
  BY DEF SaveMeta
<1>2. [st |-> st, type |-> type] \in MetaRecord
  BY DEF MetaRecord
<1> QED BY <1>1, <1>2

\* A new key has the word, and an algorithm that suits the metadata and the YubiKey.
LEMMA CreateStep == ASSUME KCInv, NEW i \in Ids, Create(i) PROVE KCInv'
<1>1. PICK choice \in Choices, given \in Secrets :
        /\ choice.type # Refused /\ given.word # Empty
        /\ SaveMeta(i, choice.type)
        /\ key' = IF meta'[i].st = "torn" THEN key
                  ELSE [key EXCEPT ![i] = [lock |-> given.secret, word |-> given.word, card |->
                          choice.card = None \/ Best(choice.card, Created(choice.type)),
                          primary |-> Created(choice.type), subkeys |-> <<Created(choice.type)>>]]
  BY DEF Create
<1>2. key[i] = NoKey /\ last' = Quiet
  BY DEF Create
<1>3. choice.type \in KeyTypes
      /\ (choice.card = None \/ Best(choice.card, Created(choice.type))) = TRUE
  BY <1>1, ChoiceIs
<1>4. /\ meta' \in [Ids -> MetaRecord] /\ meta'[i].type = choice.type
      /\ \A j \in Ids : j # i => meta'[j] = meta[j]
  BY <1>1, <1>3, Saved DEF KCInv
<1>5. given.word \in Words /\ given.secret = Lock(given.word) /\ given.secret \in Texts
  <2>1. given.word \in Words \cup {Empty} /\ given.secret = Lock(given.word)
    BY <1>1, SecretIsWord
  <2>2. given.word \in Words
    BY <1>1, <2>1
  <2>3. Lock(given.word) \in Texts
    BY <2>2 DEF Lock, Texts
  <2> QED BY <2>1, <2>2, <2>3
<1> DEFINE k == [lock |-> given.secret, word |-> given.word, card |-> TRUE,
                 primary |-> Created(choice.type), subkeys |-> <<Created(choice.type)>>]
<1>6. key' = IF meta'[i].st = "torn" THEN key ELSE [key EXCEPT ![i] = k]
  BY <1>1, <1>3
<1>7. /\ Created(choice.type) \in {"Ed25519Legacy", "Rsa"}
      /\ DetectKeyType(Created(choice.type)) = choice.type
  BY <1>3 DEF Created, DetectKeyType, KeyTypes
<1>8. k \in KeyRecord
  BY <1>5, <1>7 DEF KeyRecord
<1>9. Sound(k, meta'[i])
  BY <1>4, <1>5, <1>7 DEF Sound
<1> HIDE DEF k
<1>10. key' \in [Ids -> KeyRecord \cup {NoKey}]
  BY <1>6, <1>8 DEF KCInv
<1>11. ASSUME NEW j \in Ids, key'[j] # NoKey PROVE Sound(key'[j], meta'[j])
  <2>1. CASE j = i
    <3>1. key'[i] = k
      BY <1>2, <1>6, <1>11, <2>1 DEF KCInv
    <3> QED BY <1>9, <2>1, <3>1
  <2>2. CASE j # i
    <3>1. key'[j] = key[j]
      BY <1>6, <2>2 DEF KCInv
    <3> QED BY <1>4, <1>11, <2>2, <3>1 DEF KCInv
  <2> QED BY <2>1, <2>2
<1>12. last' \in [meant : Ids \cup {None}, did : Ids \cup {None}] /\ last'.did = last'.meant
  BY <1>2 DEF Quiet
<1> QED BY <1>4, <1>10, <1>11, <1>12 DEF KCInv

\* Whom a command reaches is whom it was meant for.
LEMMA ReachesTheOneMeant ==
  ASSUME KCInv, NEW q, NEW given \in Secrets
  PROVE  Meant(q, given.word) =
           {i \in FindIdentity(q, LoadAll) : key[i] # NoKey /\ given.secret = key[i].lock}
<1>1. LoadAll \in SUBSET Ids
  BY DEF LoadAll
<1>2. FindIdentity(q, LoadAll) = {i \in LoadAll : Fits(q, i, LoadAll)}
  BY <1>1, FindsTheBest
<1>3. given.secret = Lock(given.word)
  BY SecretIsWord
<1>4. \A i \in Ids : key[i] # NoKey => key[i].lock = Lock(key[i].word)
  BY DEF KCInv, Sound
<1>5. \A a, b : Lock(a) = Lock(b) <=> a = b
  <2>1. \A a : Lock(a).word = a
    BY DEF Lock
  <2> QED BY <2>1
<1>6. \A i \in Ids : key[i] # NoKey => (given.secret = key[i].lock <=> key[i].word = given.word)
  BY <1>3, <1>4, <1>5
<1>7. Meant(q, given.word) =
        {i \in LoadAll : Fits(q, i, LoadAll) /\ key[i] # NoKey /\ key[i].word = given.word}
  BY DEF Meant, Fits
<1> QED BY <1>1, <1>2, <1>6, <1>7

\* A change adds subkeys to one key and saves its metadata.
LEMMA ChangeStep ==
  ASSUME KCInv, NEW q, NEW given \in Secrets,
         NEW added \in [Ids -> Seq({"Ed25519Legacy", "Ed25519", "Rsa"})],
         Change(q, given, added)
  PROVE  KCInv'
<1> DEFINE reached == {i \in FindIdentity(q, LoadAll) :
                         key[i] # NoKey /\ given.secret = key[i].lock}
<1>1. reached = Meant(q, given.word)
  BY ReachesTheOneMeant
<1>2. reached \subseteq Ids
  BY <1>1 DEF Meant, LoadAll
<1>3. /\ last' = [meant |-> TheOne(Meant(q, given.word)), did |-> TheOne(reached)]
      /\ \/ UNCHANGED <<meta, key>>
         \/ \E i \in reached : /\ key' = [key EXCEPT ![i].subkeys = @ \o added[i]]
                               /\ SaveMeta(i, meta[i].type)
  BY DEF Change
<1>4. \A i \in reached : key[i] # NoKey
  OBVIOUS
<1> HIDE DEF reached
<1>5. last' \in [meant : Ids \cup {None}, did : Ids \cup {None}] /\ last'.did = last'.meant
  <2>1. TheOne(reached) \in Ids \cup {None}
    BY <1>2 DEF TheOne
  <2> QED BY <1>1, <1>3, <2>1
<1>6. CASE UNCHANGED <<meta, key>>
  BY <1>5, <1>6 DEF KCInv
<1>7. ASSUME NEW i \in reached, key' = [key EXCEPT ![i].subkeys = @ \o added[i]],
             SaveMeta(i, meta[i].type)
      PROVE  KCInv'
  <2>1. i \in Ids /\ key[i] # NoKey
    BY <1>2, <1>4
  <2>2. key[i] \in KeyRecord /\ Sound(key[i], meta[i]) /\ meta[i].type \in KeyTypes
    BY <2>1 DEF KCInv, MetaRecord
  <2>3. /\ meta' \in [Ids -> MetaRecord] /\ meta'[i].type = meta[i].type
        /\ \A j \in Ids : j # i => meta'[j] = meta[j]
    BY <1>7, <2>1, <2>2, Saved DEF KCInv
  <2> DEFINE k == [key[i] EXCEPT !.subkeys = @ \o added[i]]
  <2>4. key' = [key EXCEPT ![i] = k]
    BY <1>7
  <2>5. key[i].subkeys \o added[i] \in Seq({"Ed25519Legacy", "Ed25519", "Rsa"})
    BY <2>1, <2>2 DEF KeyRecord
  <2>6. /\ k \in KeyRecord /\ k.lock = key[i].lock /\ k.word = key[i].word
        /\ k.card = key[i].card /\ k.primary = key[i].primary
    BY <2>2, <2>5 DEF KeyRecord
  <2> HIDE DEF k
  <2>7. meta[i].st = "ok" => meta[i].type = DetectKeyType(key[i].primary)
    BY <2>2 DEF Sound
  <2>8. meta[i].type = DetectKeyType(key[i].primary)
    <3>1. i \in LoadAll
      BY <1>1 DEF Meant
    <3> QED BY <2>7, <3>1 DEF LoadAll
  <2>9. Sound(k, meta'[i])
    BY <2>2, <2>3, <2>6, <2>8 DEF Sound
  <2>10. key' \in [Ids -> KeyRecord \cup {NoKey}]
    BY <2>4, <2>6 DEF KCInv
  <2>11. ASSUME NEW j \in Ids, key'[j] # NoKey PROVE Sound(key'[j], meta'[j])
    <3>1. CASE j = i
      <4>1. key'[i] = k
        BY <2>1, <2>4 DEF KCInv
      <4> QED BY <2>9, <3>1, <4>1
    <3>2. CASE j # i
      <4>1. key'[j] = key[j]
        BY <2>4, <3>2 DEF KCInv
      <4> QED BY <2>3, <2>11, <3>2, <4>1 DEF KCInv
    <3> QED BY <3>1, <3>2
  <2> QED BY <1>5, <2>3, <2>10, <2>11 DEF KCInv
<1> QED BY <1>3, <1>6, <1>7

\* Renewals add nothing that counts here, rotations a subkey of the new type.
LEMMA RenewStep == ASSUME KCInv, NEW q, NEW given \in Secrets, Renew(q, given) PROVE KCInv'
<1>1. [i \in Ids |-> <<>>] \in [Ids -> Seq({"Ed25519Legacy", "Ed25519", "Rsa"})]
  OBVIOUS
<1> QED BY <1>1, ChangeStep DEF Renew

\* A rotation adds a subkey of the type that the option or the metadata tells.
LEMMA RotateStep ==
  ASSUME KCInv, NEW q, NEW given \in Secrets, NEW flag, Rotate(q, given, flag) PROVE KCInv'
<1> DEFINE NewType(i) == ParseKeyType(IF flag = None THEN meta[i].type ELSE flag)
<1> DEFINE added == [i \in Ids |-> <<Rotated(NewType(i))>>]
<1>1. Change(q, given, added)
  BY DEF Rotate
<1>2. \A i : Rotated(NewType(i)) \in {"Ed25519Legacy", "Ed25519", "Rsa"}
  BY DEF Rotated
<1> HIDE DEF NewType
<1>3. added \in [Ids -> Seq({"Ed25519Legacy", "Ed25519", "Rsa"})]
  BY <1>2
<1> QED BY <1>1, <1>3, ChangeStep

\* What changes the metadata of one identity and no key.
LEMMA MetaStep ==
  ASSUME KCInv, NEW i \in Ids, meta' \in [Ids -> MetaRecord],
         \A j \in Ids : j # i => meta'[j] = meta[j],
         key[i] # NoKey /\ meta'[i].st = "ok" => meta'[i].type = DetectKeyType(key[i].primary),
         last' = Quiet, UNCHANGED key
  PROVE  KCInv'
<1>1. last' \in [meant : Ids \cup {None}, did : Ids \cup {None}] /\ last'.did = last'.meant
  BY DEF Quiet
<1>2. key' \in [Ids -> KeyRecord \cup {NoKey}]
  BY DEF KCInv
<1>3. ASSUME NEW j \in Ids, key'[j] # NoKey PROVE Sound(key'[j], meta'[j])
  <2>1. Sound(key[j], meta[j]) /\ key'[j] = key[j]
    BY <1>3 DEF KCInv
  <2>2. CASE j = i
    BY <1>3, <2>1, <2>2 DEF Sound
  <2>3. CASE j # i
    BY <2>1, <2>3
  <2> QED BY <2>2, <2>3
<1> QED BY <1>1, <1>2, <1>3 DEF KCInv

\* Without metadata there is nothing that could tell the wrong algorithm.
LEMMA RemoveStep == ASSUME KCInv, NEW i \in Ids, RemoveMeta(i) PROVE KCInv'
<1>1. /\ meta' = [meta EXCEPT ![i] = NoMeta] /\ last' = Quiet /\ UNCHANGED key
      /\ meta \in [Ids -> MetaRecord]
  BY DEF RemoveMeta, KCInv
<1>2. NoMeta \in MetaRecord /\ NoMeta.st = "absent"
  BY DEF NoMeta, MetaRecord, KeyTypes
<1> HIDE DEF NoMeta
<1>3. /\ meta' \in [Ids -> MetaRecord] /\ meta'[i].st = "absent"
      /\ \A j \in Ids : j # i => meta'[j] = meta[j]
  BY <1>1, <1>2
<1> QED BY <1>1, <1>3, MetaStep

\* A backup writes the type back that it read.
LEMMA BackupStep == ASSUME KCInv, NEW q, Backup(q) PROVE KCInv'
<1>1. PICK i \in ParseFingerprint(q) :
        key[i] # NoKey /\ meta[i].st = "ok" /\ SaveMeta(i, meta[i].type)
  BY DEF Backup
<1>2. i \in Ids /\ last' = Quiet /\ UNCHANGED key
  BY DEF ParseFingerprint, Backup
<1>3. meta[i].type \in KeyTypes /\ meta[i].type = DetectKeyType(key[i].primary)
  BY <1>1, <1>2 DEF KCInv, MetaRecord, Sound
<1>4. /\ meta' \in [Ids -> MetaRecord] /\ meta'[i].type = meta[i].type
      /\ \A j \in Ids : j # i => meta'[j] = meta[j]
  BY <1>1, <1>2, <1>3, Saved DEF KCInv
<1> QED BY <1>2, <1>3, <1>4, MetaStep

\* A restore makes metadata from the key when there is none.
LEMMA RestoreStep == ASSUME KCInv, NEW q, Restore(q) PROVE KCInv'
<1>1. PICK i \in ParseFingerprint(q) :
        /\ key[i] # NoKey
        /\ SaveMeta(i, IF meta[i].st = "ok" THEN meta[i].type ELSE DetectKeyType(key[i].primary))
  BY DEF Restore
<1>2. i \in Ids /\ last' = Quiet /\ UNCHANGED key
  BY DEF ParseFingerprint, Restore
<1>3. (IF meta[i].st = "ok" THEN meta[i].type ELSE DetectKeyType(key[i].primary)) =
        DetectKeyType(key[i].primary)
  BY <1>1, <1>2 DEF KCInv, Sound
<1>4. DetectKeyType(key[i].primary) \in KeyTypes
  BY DEF DetectKeyType, KeyTypes
<1>5. SaveMeta(i, DetectKeyType(key[i].primary))
  BY <1>1, <1>3
<1>6. /\ meta' \in [Ids -> MetaRecord] /\ meta'[i].type = DetectKeyType(key[i].primary)
      /\ \A j \in Ids : j # i => meta'[j] = meta[j]
  BY <1>2, <1>4, <1>5, Saved DEF KCInv
<1> QED BY <1>2, <1>6, MetaStep

\* Every command keeps the invariant.
LEMMA KCNext == ASSUME KCInv, [Next]_vars PROVE KCInv'
<1>1. CASE UNCHANGED vars
  BY <1>1 DEF vars, KCInv
<1>2. ASSUME NEW i \in Ids, Create(i) PROVE KCInv'
  BY <1>2, CreateStep
<1>3. ASSUME NEW i \in Ids, RemoveMeta(i) PROVE KCInv'
  BY <1>3, RemoveStep
<1>4. ASSUME NEW q \in Queries, Backup(q) PROVE KCInv'
  BY <1>4, BackupStep
<1>5. ASSUME NEW q \in Queries, Restore(q) PROVE KCInv'
  BY <1>5, RestoreStep
<1>6. ASSUME NEW q \in Queries, NEW given \in Secrets, Renew(q, given) PROVE KCInv'
  BY <1>6, RenewStep
<1>7. ASSUME NEW q \in Queries, NEW given \in Secrets,
             NEW flag \in KeyTypes \cup {Garbage, None}, Rotate(q, given, flag)
      PROVE  KCInv'
  BY <1>7, RotateStep
<1> QED BY <1>1, <1>2, <1>3, <1>4, <1>5, <1>6, <1>7 DEF Next
-----------------------------------------------------------------------------
(* The theorems.                                                           *)

\* The invariant, in every state of every behaviour.
THEOREM Invariant == Spec => []KCInv
<1>1. KCInv /\ [Next]_vars => KCInv'
  BY KCNext
<1> QED BY <1>1, KCInit, PTL DEF Spec

\* TypeOK: the types, and that metadata that can be read tells the algorithm of the
\* primary key (detect_key_type in backup.rs, rotate_subkeys).
THEOREM TypeCorrect == Spec => []TypeOK
<1>1. KCInv => TypeOK
  <2> SUFFICES ASSUME KCInv PROVE TypeOK
    OBVIOUS
  <2>1. ASSUME NEW i \in Ids
        PROVE  /\ meta[i] \in MetaRecord
               /\ \/ key[i] = NoKey
                  \/ /\ key[i] \in KeyRecord
                     /\ meta[i].st = "ok" => meta[i].type = DetectKeyType(key[i].primary)
    BY <2>1 DEF KCInv, Sound
  <2> QED BY <2>1 DEF KCInv, TypeOK, MetaRecord, KeyRecord
<1> QED BY <1>1, Invariant, PTL

\* ChangesTheOneMeant: of any number of identities, `key renew` and `key rotate` change
\* the one that the query fits best (find_identity), with the word it was created with.
THEOREM TheOneMeantIsChanged == Spec => []ChangesTheOneMeant
<1>1. KCInv => ChangesTheOneMeant
  BY DEF KCInv, ChangesTheOneMeant
<1> QED BY <1>1, Invariant, PTL

\* CardTakesNewKey: a key that was created for a YubiKey can be imported into it
\* (best_key_type_for_firmware).
THEOREM NewKeySuitsCard == Spec => []CardTakesNewKey
<1>1. KCInv => CardTakesNewKey
  BY DEF KCInv, CardTakesNewKey, Sound
<1> QED BY <1>1, Invariant, PTL
=============================================================================
