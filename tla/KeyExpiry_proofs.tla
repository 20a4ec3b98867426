-------------------------- MODULE KeyExpiry_proofs --------------------------
(***************************************************************************)
(* Proofs about KeyExpiry, for any clock, any number of changes, any cards *)
(* and any expirations.  The invariant says what every key in the world    *)
(* looks like (Good) and what the last binding signature of a subkey says  *)
(* after the owner has set its expiration (Told).                          *)
(***************************************************************************)
EXTENDS KeyExpiry, TLAPS

\* Of the binding signatures, this one was added last.
LastOf(subkey, l) == l \in Bindings(subkey) /\ \A j \in Bindings(subkey) : j <= l

\* A subkey begins with the binding signature of its birth, and every binding
\* signature has the key flags.
Sound(subkey) ==
  /\ 1 \in Bindings(subkey) /\ subkey.sigs[1].at = subkey.born
  /\ \A i \in Bindings(subkey) : subkey.sigs[i].usage
  /\ \E l \in Nat : LastOf(subkey, l)

\* All secrets of a key are in one place.
OneStore(key) == \E s \in Serials \cup {Here} : \A g \in DOMAIN key : key[g].secret = s

Good(key) ==
  /\ key \in Key
  /\ OneStore(key)
  /\ \A g \in DOMAIN key : key[g].id = g /\ Sound(key[g])

\* The last binding signature says what the command that was asked for it wanted.
Told(subkey, a) ==
  LET last == LastBinding(subkey) IN
  a.by # "rotate" =>
    /\ last.at <= MaxTime
    /\ \/ a.until = Never /\ last.span = Never
       \/ \E d \in Spells : /\ a.until = last.at + d
                            /\ last.span = (((last.at - subkey.born) % Wide) + d) % Wide

Asked == [by : {"create", "renew", "rotate"}, until : Nat \cup {Never}]

KInv ==
  /\ now \in 0..MaxTime /\ changes \in 0..MaxChanges
  /\ asked \in Seq(Asked) /\ Len(asked) = Len(local)
  /\ Good(local)
  /\ backup # None => Good(backup)
  /\ \A g \in DOMAIN local : Told(local[g], asked[g])
-----------------------------------------------------------------------------
(* One subkey.                                                             *)

\* The last binding signature is the one that LastBinding finds.
LEMMA LastIs ==
  ASSUME NEW subkey \in Subkey, NEW l, LastOf(subkey, l)
  PROVE  LastBinding(subkey) = subkey.sigs[l]
<1> DEFINE P(i) == i \in Bindings(subkey) /\ \A j \in Bindings(subkey) : j <= i
<1>1. subkey.sigs \in Seq(Signature) /\ Bindings(subkey) \subseteq Int
  BY DEF Subkey, Bindings
<1>2. \A i : P(i) => i = l
  BY <1>1 DEF LastOf
<1>3. (CHOOSE i \in Bindings(subkey) : \A j \in Bindings(subkey) : j <= i) = l
  BY <1>2 DEF LastOf
<1> QED BY <1>3 DEF LastBinding

\* The clock is a time that a signature can have.
LEMMA TimesOfClock == ASSUME NEW t \in 0..MaxTime PROVE t \in Times /\ t \in Nat
BY TimeAssumption, WidthAssumption DEF Times

\* A signature that is appended leaves the others where they are.
LEMMA AppendedSig ==
  ASSUME NEW subkey \in Subkey, NEW sig \in Signature
  PROVE  LET s == [subkey EXCEPT !.sigs = Append(@, sig)] IN
         /\ s \in Subkey
         /\ s.id = subkey.id /\ s.born = subkey.born /\ s.secret = subkey.secret
         /\ s.sigs = Append(subkey.sigs, sig)
         /\ DOMAIN s.sigs = 1..(Len(subkey.sigs) + 1)
         /\ s.sigs[Len(subkey.sigs) + 1] = sig
         /\ \A i \in DOMAIN subkey.sigs : i \in DOMAIN s.sigs /\ s.sigs[i] = subkey.sigs[i]
<1> DEFINE s == [subkey EXCEPT !.sigs = Append(@, sig)]
<1>1. subkey.sigs \in Seq(Signature)
  BY DEF Subkey
<1>2. s \in Subkey /\ s.id = subkey.id /\ s.born = subkey.born /\ s.secret = subkey.secret
      /\ s.sigs = Append(subkey.sigs, sig)
  BY <1>1 DEF Subkey
<1>3. \A i \in DOMAIN subkey.sigs :
        i \in DOMAIN Append(subkey.sigs, sig) /\ Append(subkey.sigs, sig)[i] = subkey.sigs[i]
  BY <1>1
<1>4. DOMAIN Append(subkey.sigs, sig) = 1..(Len(subkey.sigs) + 1)
      /\ Append(subkey.sigs, sig)[Len(subkey.sigs) + 1] = sig
  BY <1>1
<1> QED BY <1>2, <1>3, <1>4

\* A renewal leaves a sound subkey, the last binding signature of which is the new one.
LEMMA RenewedIsSound ==
  ASSUME NEW subkey \in Subkey, Sound(subkey), NEW t \in 0..MaxTime, NEW duration,
         SpanFor(subkey, t, duration) \in Spans
  PROVE  LET s == Renewed(subkey, t, duration) IN
         /\ s \in Subkey /\ Sound(s)
         /\ s.id = subkey.id /\ s.born = subkey.born /\ s.secret = subkey.secret
         /\ \A i \in DOMAIN subkey.sigs : i \in DOMAIN s.sigs /\ s.sigs[i] = subkey.sigs[i]
         /\ LastBinding(s) = Binding(t, SpanFor(subkey, t, duration), TRUE)
<1> DEFINE sig == Binding(t, SpanFor(subkey, t, duration), LastBinding(subkey).usage)
<1> DEFINE s == [subkey EXCEPT !.sigs = Append(@, sig)]
<1> DEFINE n == Len(subkey.sigs) + 1
<1>0. s = Renewed(subkey, t, duration)
  BY DEF Renewed
<1>1. PICK l \in Nat : LastOf(subkey, l)
  BY DEF Sound
<1>2. LastBinding(subkey).usage = TRUE
  <2>1. subkey.sigs[l].usage /\ subkey.sigs[l] \in Signature
    BY <1>1 DEF LastOf, Sound, Bindings, Subkey
  <2>2. subkey.sigs[l].usage = TRUE
    BY <2>1 DEF Signature
  <2> QED BY <1>1, <2>2, LastIs
<1>3. sig \in Signature
  BY <1>2, TimesOfClock DEF Signature, Binding
<1> HIDE DEF sig
<1>4. /\ s \in Subkey
      /\ s.id = subkey.id /\ s.born = subkey.born /\ s.secret = subkey.secret
      /\ DOMAIN s.sigs = 1..n
      /\ s.sigs[n] = sig
      /\ \A i \in DOMAIN subkey.sigs : i \in DOMAIN s.sigs /\ s.sigs[i] = subkey.sigs[i]
  BY <1>3, AppendedSig
<1>5. subkey.sigs \in Seq(Signature) /\ s.sigs \in Seq(Signature)
  <2> HIDE DEF s
  <2> QED BY <1>4 DEF Subkey
<1>6. DOMAIN subkey.sigs = 1..(n - 1) /\ n \in Nat /\ n - 1 \in Nat
  BY <1>5
<1> HIDE DEF s, n
<1>7. sig.typ = "binding" /\ sig.usage = TRUE
  BY <1>2 DEF sig, Binding
<1>8. n \in Bindings(s) /\ Bindings(s) = Bindings(subkey) \cup {n}
  <2>1. DOMAIN s.sigs = DOMAIN subkey.sigs \cup {n}
    BY <1>4, <1>6
  <2>2. \A i \in DOMAIN subkey.sigs : s.sigs[i].typ = subkey.sigs[i].typ
    BY <1>4
  <2>3. s.sigs[n].typ = "binding"
    BY <1>4, <1>7
  <2> QED BY <2>1, <2>2, <2>3 DEF Bindings
<1>9. LastOf(s, n)
  BY <1>4, <1>6, <1>8 DEF LastOf, Bindings
<1>10. LastBinding(s) = sig
  BY <1>4, <1>9, LastIs
<1>11. Sound(s)
  <2>1. 1 \in Bindings(s) /\ s.sigs[1].at = s.born
    BY <1>4, <1>8 DEF Sound, Bindings
  <2>2. \A i \in Bindings(s) : s.sigs[i].usage
    BY <1>4, <1>7, <1>8 DEF Sound, Bindings
  <2> QED BY <1>6, <1>9, <2>1, <2>2 DEF Sound
<1>12. LastBinding(s) = Binding(t, SpanFor(subkey, t, duration), TRUE)
  BY <1>2, <1>10 DEF sig
<1> QED BY <1>0, <1>4, <1>11, <1>12

\* So does a revocation, which leaves the last binding signature as it is.
LEMMA RevokedIsSound ==
  ASSUME NEW subkey \in Subkey, Sound(subkey), NEW t \in 0..MaxTime
  PROVE  LET s == RevokedOne(subkey, t) IN
         /\ s \in Subkey /\ Sound(s)
         /\ s.id = subkey.id /\ s.born = subkey.born /\ s.secret = subkey.secret
         /\ \A i \in DOMAIN subkey.sigs : i \in DOMAIN s.sigs /\ s.sigs[i] = subkey.sigs[i]
         /\ LastBinding(s) = LastBinding(subkey)
<1> DEFINE sig == [typ |-> "revocation", at |-> t, span |-> Never, usage |-> FALSE]
<1> DEFINE s == [subkey EXCEPT !.sigs = Append(@, sig)]
<1> DEFINE n == Len(subkey.sigs) + 1
<1>0. s = RevokedOne(subkey, t)
  BY DEF RevokedOne
<1>1. PICK l \in Nat : LastOf(subkey, l)
  BY DEF Sound
<1>2. sig \in Signature
  BY TimesOfClock DEF Signature, Spans
<1>3. sig.typ # "binding"
  OBVIOUS
<1> HIDE DEF sig
<1>4. /\ s \in Subkey
      /\ s.id = subkey.id /\ s.born = subkey.born /\ s.secret = subkey.secret
      /\ DOMAIN s.sigs = 1..n
      /\ s.sigs[n] = sig
      /\ \A i \in DOMAIN subkey.sigs : i \in DOMAIN s.sigs /\ s.sigs[i] = subkey.sigs[i]
  BY <1>2, AppendedSig
<1>5. subkey.sigs \in Seq(Signature) /\ s.sigs \in Seq(Signature)
  BY <1>4 DEF Subkey
<1>6. DOMAIN subkey.sigs = 1..(n - 1) /\ n \in Nat /\ n - 1 \in Nat
  BY <1>5
<1> HIDE DEF s, n
<1>7. Bindings(s) = Bindings(subkey)
  BY <1>3, <1>4, <1>6 DEF Bindings
<1>8. LastOf(s, l)
  BY <1>1, <1>7 DEF LastOf
<1>9. LastBinding(s) = LastBinding(subkey)
  <2>1. l \in DOMAIN subkey.sigs
    BY <1>1 DEF LastOf, Bindings
  <2> QED BY <1>1, <1>4, <1>8, <2>1, LastIs
<1>10. Sound(s)
  <2>1. 1 \in Bindings(s) /\ s.sigs[1].at = s.born
    BY <1>4, <1>7 DEF Sound, Bindings
  <2>2. \A i \in Bindings(s) : s.sigs[i].usage
    BY <1>4, <1>7 DEF Sound, Bindings
  <2> QED BY <1>8, <2>1, <2>2 DEF Sound
<1> QED BY <1>0, <1>4, <1>9, <1>10

\* A new subkey is sound and has no expiration.
LEMMA NewIsSound ==
  ASSUME NEW id \in Nat, NEW t \in 0..MaxTime
  PROVE  LET s == NewSubkey(id, t) IN
         /\ s \in Subkey /\ Sound(s)
         /\ s.id = id /\ s.born = t /\ s.secret = Here
         /\ LastBinding(s) = Binding(t, Never, TRUE)
<1> DEFINE s == NewSubkey(id, t)
<1> DEFINE sig == Binding(t, Never, TRUE)
<1>1. sig \in Signature /\ sig.typ = "binding" /\ sig.usage = TRUE /\ sig.at = t
  BY TimesOfClock DEF Signature, Spans, Binding
<1>2. /\ s.id = id /\ s.born = t /\ s.secret = Here /\ s.sigs = <<sig>>
      /\ s = [id |-> id, born |-> t, secret |-> Here, sigs |-> <<sig>>]
  BY DEF NewSubkey
<1> HIDE DEF sig, s
<1>3. <<sig>> \in Seq(Signature) /\ DOMAIN <<sig>> = {1} /\ <<sig>>[1] = sig
  BY <1>1
<1>4. s \in Subkey
  BY <1>1, <1>2, <1>3, TimesOfClock DEF Subkey
<1>5. Bindings(s) = {1}
  BY <1>1, <1>2, <1>3 DEF Bindings
<1>6. LastOf(s, 1)
  BY <1>5 DEF LastOf
<1>7. Sound(s)
  <2>1. 1 \in Bindings(s) /\ s.sigs[1].at = s.born
    BY <1>1, <1>2, <1>3, <1>5
  <2>2. \A i \in Bindings(s) : s.sigs[i].usage
    BY <1>1, <1>2, <1>3, <1>5
  <2> QED BY <1>6, <2>1, <2>2 DEF Sound
<1>8. LastBinding(s) = sig
  BY <1>2, <1>3, <1>4, <1>6, LastIs
<1> QED BY <1>2, <1>4, <1>7, <1>8 DEF s, sig
-----------------------------------------------------------------------------
(* A key.                                                                  *)

\* The new key has every subkey of the old one, with all its signatures.
Follows(old, new) ==
  \A g \in DOMAIN old :
    /\ g \in DOMAIN new
    /\ new[g].id = old[g].id /\ new[g].born = old[g].born
    /\ \A i \in DOMAIN old[g].sigs :
         i \in DOMAIN new[g].sigs /\ new[g].sigs[i] = old[g].sigs[i]

\* A key that follows another one has all its packets.
LEMMA FollowsKeepsPackets ==
  ASSUME NEW old, NEW new, Follows(old, new)
  PROVE  Packets(old) \subseteq Packets(new)
<1> SUFFICES ASSUME NEW p \in Packets(old) PROVE p \in Packets(new)
  OBVIOUS
<1>1. PICK g \in DOMAIN old : \E i \in DOMAIN old[g].sigs :
        p = [id |-> old[g].id, born |-> old[g].born, nth |-> i, sig |-> old[g].sigs[i]]
  BY DEF Packets
<1>2. PICK i \in DOMAIN old[g].sigs :
        p = [id |-> old[g].id, born |-> old[g].born, nth |-> i, sig |-> old[g].sigs[i]]
  BY <1>1
<1>3. /\ g \in DOMAIN new /\ i \in DOMAIN new[g].sigs
      /\ p = [id |-> new[g].id, born |-> new[g].born, nth |-> i, sig |-> new[g].sigs[i]]
  BY <1>2 DEF Follows
<1> QED BY <1>3 DEF Packets

\* A change of each subkey for itself gives a key with as many.
LEMMA MappedKey ==
  ASSUME NEW key \in Key, NEW new, DOMAIN new = DOMAIN key, new = [g \in DOMAIN key |-> new[g]],
         \A g \in DOMAIN key : new[g] \in Subkey
  PROVE  new \in Key /\ Len(new) = Len(key)
<1>1. key \in Seq(Subkey) /\ Len(key) \in Nat /\ DOMAIN key = 1..Len(key)
  BY DEF Key
<1>2. new \in [1..Len(key) -> Subkey]
  BY <1>1
<1>3. new \in Seq(Subkey) /\ Len(new) = Len(key)
  BY <1>1, <1>2
<1> QED BY <1>3 DEF Key

\* `key renew`.
LEMMA RenewedKey ==
  ASSUME NEW key, Good(key), NEW t \in 0..MaxTime, NEW duration, CanRenew(key, t, duration)
  PROVE  LET new == RenewSubkeys(key, t, duration) IN
         /\ Good(new) /\ Len(new) = Len(key) /\ DOMAIN new = DOMAIN key /\ Follows(key, new)
         /\ \A g \in DOMAIN new :
              LastBinding(new[g]) = Binding(t, SpanFor(new[g], t, duration), TRUE)
<1> DEFINE new == RenewSubkeys(key, t, duration)
<1>1. key \in Key /\ \A g \in DOMAIN key : key[g] \in Subkey
  BY DEF Good, Key
<1>2. DOMAIN new = DOMAIN key /\ new = [g \in DOMAIN key |-> new[g]]
      /\ \A g \in DOMAIN key : new[g] = Renewed(key[g], t, duration)
  BY DEF RenewSubkeys
<1> HIDE DEF new
<1>3. \A g \in DOMAIN key :
        /\ new[g] \in Subkey /\ Sound(new[g])
        /\ new[g].id = key[g].id /\ new[g].born = key[g].born /\ new[g].secret = key[g].secret
        /\ \A i \in DOMAIN key[g].sigs :
             i \in DOMAIN new[g].sigs /\ new[g].sigs[i] = key[g].sigs[i]
        /\ LastBinding(new[g]) = Binding(t, SpanFor(key[g], t, duration), TRUE)
  <2> TAKE g \in DOMAIN key
  <2>1. key[g] \in Subkey /\ Sound(key[g]) /\ SpanFor(key[g], t, duration) \in Spans
    BY <1>1 DEF Good, CanRenew
  <2> DEFINE x == key[g]
  <2> DEFINE s == Renewed(x, t, duration)
  <2>2. x \in Subkey /\ Sound(x) /\ SpanFor(x, t, duration) \in Spans
    BY <2>1
  <2>3. new[g] = s
    BY <1>2
  <2> HIDE DEF x
  <2>4. /\ s \in Subkey /\ Sound(s)
        /\ s.id = x.id /\ s.born = x.born /\ s.secret = x.secret
        /\ \A i \in DOMAIN x.sigs : i \in DOMAIN s.sigs /\ s.sigs[i] = x.sigs[i]
        /\ LastBinding(s) = Binding(t, SpanFor(x, t, duration), TRUE)
    BY <2>2, RenewedIsSound
  <2> HIDE DEF s
  <2> QED BY <2>3, <2>4 DEF x
<1>4. new \in Key /\ Len(new) = Len(key)
  BY <1>1, <1>2, <1>3, MappedKey
<1>5. OneStore(new)
  <2>1. PICK s \in Serials \cup {Here} : \A g \in DOMAIN key : key[g].secret = s
    BY DEF Good, OneStore
  <2>2. \A g \in DOMAIN new : new[g].secret = s
    BY <1>2, <1>3, <2>1
  <2> QED BY <2>2 DEF OneStore
<1>6. Good(new)
  BY <1>2, <1>3, <1>4, <1>5 DEF Good
<1>7. Follows(key, new)
  BY <1>2, <1>3 DEF Follows
<1>8. \A g \in DOMAIN new : SpanFor(new[g], t, duration) = SpanFor(key[g], t, duration)
  BY <1>2, <1>3 DEF SpanFor
<1> QED BY <1>2, <1>3, <1>4, <1>6, <1>7, <1>8 DEF new

\* Nothing of a key that is no stub is on a card.
LEMMA AllHere ==
  ASSUME NEW key, Good(key), ~IsStub(key)
  PROVE  \A g \in DOMAIN key : key[g].secret = Here
<1>1. \A g \in DOMAIN key : key[g] \in Subkey
  BY DEF Good, Key
<1>2. \A g \in DOMAIN key : key[g].secret \in Serials \cup {Here}
  BY <1>1 DEF Subkey
<1> QED BY <1>2 DEF IsStub

\* `key rotate`.
LEMMA RotatedKey ==
  ASSUME NEW key, Good(key), ~IsStub(key), NEW t \in 0..MaxTime, NEW revokeOld \in BOOLEAN
  PROVE  LET new == RotateSubkeys(key, Len(key) + 1, t, revokeOld) IN
         /\ Good(new) /\ Len(new) = Len(key) + 1 /\ Follows(key, new)
         /\ DOMAIN new = DOMAIN key \cup {Len(key) + 1}
         /\ \A g \in DOMAIN key : LastBinding(new[g]) = LastBinding(key[g])
<1> DEFINE old == [g \in DOMAIN key |-> IF revokeOld THEN RevokedOne(key[g], t) ELSE key[g]]
<1> DEFINE n == Len(key) + 1
<1> DEFINE born == NewSubkey(n, t)
<1> DEFINE new == Append(old, born)
<1>1. /\ key \in Key /\ key \in Seq(Subkey) /\ Len(key) \in Nat /\ DOMAIN key = 1..Len(key)
      /\ \A g \in DOMAIN key : key[g] \in Subkey
  BY DEF Good, Key
<1>2. DOMAIN old = DOMAIN key /\ old = [g \in DOMAIN key |-> old[g]]
      /\ \A g \in DOMAIN key : old[g] = IF revokeOld THEN RevokedOne(key[g], t) ELSE key[g]
  OBVIOUS
<1>3. new = RotateSubkeys(key, Len(key) + 1, t, revokeOld)
  BY DEF RotateSubkeys
<1> HIDE DEF old
<1>4. \A g \in DOMAIN key :
        /\ old[g] \in Subkey /\ Sound(old[g])
        /\ old[g].id = key[g].id /\ old[g].born = key[g].born /\ old[g].secret = key[g].secret
        /\ \A i \in DOMAIN key[g].sigs :
             i \in DOMAIN old[g].sigs /\ old[g].sigs[i] = key[g].sigs[i]
        /\ LastBinding(old[g]) = LastBinding(key[g])
  <2> TAKE g \in DOMAIN key
  <2>1. key[g] \in Subkey /\ Sound(key[g])
    BY <1>1 DEF Good
  <2>2. CASE revokeOld
    <3>1. old[g] = RevokedOne(key[g], t)
      BY <1>2, <2>2
    <3> QED BY <2>1, <3>1, RevokedIsSound
  <2>3. CASE ~revokeOld
    <3>1. old[g] = key[g]
      BY <1>2, <2>3
    <3> QED BY <2>1, <3>1
  <2> QED BY <2>2, <2>3
<1>5. old \in Key /\ Len(old) = Len(key)
  BY <1>1, <1>2, <1>4, MappedKey
<1>6. /\ n \in Nat /\ born \in Subkey /\ Sound(born) /\ born.id = n /\ born.secret = Here
  <2>1. n \in Nat
    BY <1>1
  <2> HIDE DEF n
  <2> QED BY <2>1, NewIsSound
<1> HIDE DEF born
<1>7. /\ new \in Key /\ Len(new) = n /\ DOMAIN new = DOMAIN key \cup {n} /\ new[n] = born
      /\ \A g \in DOMAIN key : new[g] = old[g]
  <2>1. old \in Seq(Subkey)
    BY <1>5 DEF Key
  <2>2. /\ new \in Seq(Subkey) /\ Len(new) = Len(key) + 1
        /\ DOMAIN new = 1..(Len(key) + 1) /\ new[Len(key) + 1] = born
        /\ \A g \in 1..Len(key) : new[g] = old[g]
    BY <1>1, <1>5, <1>6, <2>1
  <2>3. 1..(Len(key) + 1) = 1..Len(key) \cup {Len(key) + 1}
    BY <1>1
  <2> QED BY <1>1, <2>2, <2>3 DEF Key
<1> HIDE DEF new, n
<1>8. \A g \in DOMAIN key : key[g].secret = Here
  BY AllHere
<1>9. OneStore(new)
  <2>1. \A g \in DOMAIN new : new[g].secret = Here
    BY <1>4, <1>6, <1>7, <1>8
  <2> QED BY <2>1 DEF OneStore
<1>10. \A g \in DOMAIN new : new[g].id = g /\ Sound(new[g])
  BY <1>4, <1>6, <1>7 DEF Good
<1>11. Good(new)
  BY <1>7, <1>9, <1>10 DEF Good
<1>12. Follows(key, new)
  BY <1>4, <1>7 DEF Follows
<1> QED BY <1>3, <1>4, <1>7, <1>11, <1>12 DEF n

\* `key create`.
LEMMA GeneratedKey ==
  ASSUME NEW t \in 0..MaxTime, NEW duration, CanRenew(<<NewSubkey(1, t)>>, t, duration)
  PROVE  LET new == GenerateKey(1, t, duration) IN
         /\ Good(new) /\ Len(new) = 1 /\ DOMAIN new = {1}
         /\ LastBinding(new[1]) = Binding(t, SpanFor(new[1], t, duration), TRUE)
<1> DEFINE first == NewSubkey(1, t)
<1> DEFINE key == <<first>>
<1>1. /\ first \in Subkey /\ Sound(first) /\ first.id = 1 /\ first.secret = Here
      /\ LastBinding(first) = Binding(t, Never, TRUE)
  BY NewIsSound
<1> HIDE DEF first
<1>2. key \in Seq(Subkey) /\ Len(key) = 1 /\ DOMAIN key = {1} /\ key[1] = first
  BY <1>1
<1>3. Good(key)
  <2>1. OneStore(key)
    BY <1>1, <1>2 DEF OneStore
  <2> QED BY <1>1, <1>2, <2>1 DEF Good, Key
<1> HIDE DEF key
<1>4. CASE duration = Never
  <2>1. GenerateKey(1, t, duration) = key
    BY <1>4 DEF GenerateKey, key, first
  <2>2. SpanFor(first, t, duration) = Never
    BY <1>4 DEF SpanFor
  <2> QED BY <1>1, <1>2, <1>3, <2>1, <2>2
<1>5. CASE duration # Never
  <2>1. GenerateKey(1, t, duration) = RenewSubkeys(key, t, duration)
    BY <1>5 DEF GenerateKey, key, first
  <2>2. CanRenew(key, t, duration)
    BY DEF key, first
  <2> DEFINE new == RenewSubkeys(key, t, duration)
  <2>3. /\ Good(new) /\ Len(new) = Len(key) /\ DOMAIN new = DOMAIN key
        /\ \A g \in DOMAIN new :
             LastBinding(new[g]) = Binding(t, SpanFor(new[g], t, duration), TRUE)
    BY <1>3, <2>2, RenewedKey
  <2> HIDE DEF new
  <2> QED BY <1>2, <2>1, <2>3 DEF new
<1> QED BY <1>4, <1>5

\* `card provision` leaves the signatures as they are.
LEMMA StubbedKey ==
  ASSUME NEW key, Good(key), NEW serial \in Serials
  PROVE  LET new == StubKey(key, serial) IN
         /\ Good(new) /\ Len(new) = Len(key) /\ DOMAIN new = DOMAIN key /\ Follows(key, new)
         /\ \A g \in DOMAIN key : new[g].sigs = key[g].sigs /\ new[g].born = key[g].born
<1> DEFINE new == StubKey(key, serial)
<1>1. key \in Key /\ \A g \in DOMAIN key : key[g] \in Subkey
  BY DEF Good, Key
<1>2. DOMAIN new = DOMAIN key /\ new = [g \in DOMAIN key |-> new[g]]
      /\ \A g \in DOMAIN key : new[g] = [key[g] EXCEPT !.secret = serial]
  BY DEF StubKey
<1> HIDE DEF new
<1>3. \A g \in DOMAIN key :
        /\ new[g] \in Subkey /\ new[g].secret = serial
        /\ new[g].id = key[g].id /\ new[g].born = key[g].born /\ new[g].sigs = key[g].sigs
  BY <1>1, <1>2 DEF Subkey
<1>4. \A g \in DOMAIN key : Sound(new[g])
  BY <1>3 DEF Good, Sound, Bindings, LastOf
<1>5. new \in Key /\ Len(new) = Len(key)
  BY <1>1, <1>2, <1>3, MappedKey
<1>6. OneStore(new)
  BY <1>2, <1>3 DEF OneStore
<1>7. Good(new)
  BY <1>2, <1>3, <1>4, <1>5, <1>6 DEF Good
<1>8. Follows(key, new)
  BY <1>2, <1>3 DEF Follows
<1> QED BY <1>2, <1>3, <1>5, <1>7, <1>8 DEF new

\* A stub names one card.
LEMMA StubNamesCard ==
  ASSUME NEW key, Good(key), IsStub(key)
  PROVE  \A g \in DOMAIN key : key[g].secret = CardSerial(key)
<1> DEFINE P(g) == g \in DOMAIN key /\ key[g].secret \in Serials
                   /\ \A h \in 1..(g - 1) : key[h].secret = Here
<1>1. PICK s \in Serials \cup {Here} : \A g \in DOMAIN key : key[g].secret = s
  BY DEF Good, OneStore
<1>2. key \in Seq(Subkey) /\ Len(key) \in Nat /\ DOMAIN key = 1..Len(key)
  BY DEF Good, Key
<1>3. P(1)
  BY <1>1, <1>2 DEF IsStub
<1>4. P(CHOOSE g : P(g))
  BY <1>3
<1>5. CardSerial(key) = key[CHOOSE g : P(g)].secret
  BY DEF CardSerial
<1> QED BY <1>1, <1>4, <1>5

\* Two keys with the same packets have the same subkeys with the same signatures.
LEMMA SamePackets ==
  ASSUME NEW a, NEW b, Good(a), Good(b), Packets(a) = Packets(b)
  PROVE  /\ Len(a) = Len(b) /\ DOMAIN a = DOMAIN b
         /\ \A g \in DOMAIN a : a[g].sigs = b[g].sigs /\ a[g].born = b[g].born
<1>1. ASSUME NEW x, NEW y, Good(x), Good(y), Packets(x) = Packets(y), NEW g \in DOMAIN x,
             NEW i \in DOMAIN x[g].sigs
      PROVE  /\ g \in DOMAIN y /\ i \in DOMAIN y[g].sigs
             /\ x[g].sigs[i] = y[g].sigs[i] /\ x[g].born = y[g].born
  <2> DEFINE p == [id |-> x[g].id, born |-> x[g].born, nth |-> i, sig |-> x[g].sigs[i]]
  <2>1. p \in Packets(y)
    BY <1>1 DEF Packets
  <2>2. PICK h \in DOMAIN y : \E j \in DOMAIN y[h].sigs :
          p = [id |-> y[h].id, born |-> y[h].born, nth |-> j, sig |-> y[h].sigs[j]]
    BY <2>1 DEF Packets
  <2>3. /\ x[g].id = y[h].id /\ x[g].born = y[h].born
        /\ i \in DOMAIN y[h].sigs /\ x[g].sigs[i] = y[h].sigs[i]
    BY <2>2
  <2>4. g = h
    BY <1>1, <2>3 DEF Good
  <2> QED BY <2>2, <2>3, <2>4
<1>2. ASSUME NEW x, Good(x), NEW g \in DOMAIN x
      PROVE  /\ 1 \in DOMAIN x[g].sigs
             /\ x[g].sigs \in Seq(Signature)
  <2>1. x[g] \in Subkey /\ Sound(x[g])
    BY <1>2 DEF Good, Key
  <2> QED BY <2>1 DEF Sound, Bindings, Subkey
<1>3. DOMAIN a = DOMAIN b
  BY <1>1, <1>2
<1>4. Len(a) = Len(b)
  BY <1>3 DEF Good, Key
<1>5. ASSUME NEW g \in DOMAIN a
      PROVE  a[g].sigs = b[g].sigs /\ a[g].born = b[g].born
  <2>1. g \in DOMAIN b
    BY <1>3
  <2>2. DOMAIN a[g].sigs = DOMAIN b[g].sigs
    BY <1>1, <2>1
  <2>3. \A i \in DOMAIN a[g].sigs : a[g].sigs[i] = b[g].sigs[i]
    BY <1>1
  <2>4. a[g].sigs = b[g].sigs
    BY <1>2, <2>1, <2>2, <2>3
  <2>5. a[g].born = b[g].born
    BY <1>1, <1>2
  <2> QED BY <2>4, <2>5
<1> QED BY <1>3, <1>4, <1>5
-----------------------------------------------------------------------------
(* The commands keep the invariant.                                        *)

\* A subkey has been told what the signature made for that purpose says.
LEMMA ToldBySignature ==
  ASSUME NEW subkey, NEW t \in 0..MaxTime, NEW duration \in Durations, NEW by,
         LastBinding(subkey) = Binding(t, SpanFor(subkey, t, duration), TRUE)
  PROVE  Told(subkey, [by |-> by, until |-> IF duration = Never THEN Never ELSE t + duration])
<1>1. t <= MaxTime
  BY TimeAssumption
<1>2. CASE duration = Never
  BY <1>1, <1>2 DEF Told, Binding, SpanFor
<1>3. CASE duration # Never
  <2>1. duration \in Spells
    BY <1>3 DEF Durations
  <2> QED BY <1>1, <1>3, <2>1 DEF Told, Binding, SpanFor
<1> QED BY <1>2, <1>3

\* What it was told depends on nothing but its signatures and its birth.
LEMMA ToldBySigs ==
  ASSUME NEW x, NEW y, NEW a, Told(x, a), x.born = y.born,
         x.sigs = y.sigs \/ LastBinding(x) = LastBinding(y)
  PROVE  Told(y, a)
<1>1. LastBinding(x) = LastBinding(y)
  BY DEF LastBinding, Bindings
<1> QED BY <1>1 DEF Told

\* The answer that a command gives is of the right type.
LEMMA AskedTyped ==
  ASSUME NEW t \in 0..MaxTime, NEW duration \in Durations, NEW by \in {"create", "renew", "rotate"}
  PROVE  [by |-> by, until |-> IF duration = Never THEN Never ELSE t + duration] \in Asked
BY TimeAssumption, SpellAssumption DEF Asked, Durations

\* There is no key at first.
LEMMA InitK == Init => KInv
<1> SUFFICES ASSUME Init PROVE KInv
  OBVIOUS
<1>1. Good(<<>>)
  BY DEF Good, Key, OneStore
<1>2. <<>> \in Seq(Asked) /\ Len(<<>>) = 0 /\ DOMAIN <<>> = {}
  OBVIOUS
<1> QED BY <1>1, <1>2, TimeAssumption, ChangeAssumption DEF Init, KInv

\* `key create`.
LEMMA CreateK == ASSUME KInv, Create PROVE KInv' /\ Follows(local, local')
<1>1. PICK duration \in Durations :
        /\ CanRenew(<<NewSubkey(1, now)>>, now, duration)
        /\ local' = GenerateKey(1, now, duration)
        /\ asked' = <<[by |-> "create", until |-> Until(duration)]>>
  BY DEF Create
<1> DEFINE a == [by |-> "create", until |-> IF duration = Never THEN Never ELSE now + duration]
<1>2. now \in 0..MaxTime /\ local = <<>> /\ UNCHANGED <<now, backup, changes>>
  BY DEF Create, KInv
<1>3. asked' = <<a>> /\ a \in Asked
  BY <1>1, <1>2, AskedTyped DEF Until
<1>4. /\ Good(local') /\ Len(local') = 1 /\ DOMAIN local' = {1}
      /\ LastBinding(local'[1]) = Binding(now, SpanFor(local'[1], now, duration), TRUE)
  BY <1>1, <1>2, GeneratedKey
<1>5. Told(local'[1], a)
  BY <1>2, <1>4, ToldBySignature
<1> HIDE DEF a
<1>6. asked' \in Seq(Asked) /\ Len(asked') = 1 /\ asked'[1] = a
  BY <1>3
<1>7. \A g \in DOMAIN local' : Told(local'[g], asked'[g])
  BY <1>4, <1>5, <1>6
<1>8. Follows(local, local')
  BY <1>2 DEF Follows
<1>9. backup' # None => Good(backup')
  BY <1>2 DEF KInv
<1>10. now' \in 0..MaxTime /\ changes' \in 0..MaxChanges
  BY <1>2 DEF KInv
<1> QED BY <1>4, <1>6, <1>7, <1>8, <1>9, <1>10 DEF KInv

\* `key renew`.
LEMMA RenewK == ASSUME KInv, Renew PROVE KInv' /\ Follows(local, local')
<1>1. PICK duration \in Durations :
        /\ CanRenew(local, now, duration)
        /\ local' = RenewSubkeys(local, now, duration)
        /\ asked' = [g \in DOMAIN local |-> [by |-> "renew", until |-> Until(duration)]]
  BY DEF Renew
<1> DEFINE a == [by |-> "renew", until |-> IF duration = Never THEN Never ELSE now + duration]
<1>2. now \in 0..MaxTime /\ Good(local) /\ UNCHANGED <<now, backup>>
  BY DEF Renew, Change, KInv
<1>3. a \in Asked /\ asked' = [g \in DOMAIN local |-> a]
  BY <1>1, <1>2, AskedTyped DEF Until
<1>4. /\ Good(local') /\ Len(local') = Len(local) /\ DOMAIN local' = DOMAIN local
      /\ Follows(local, local')
      /\ \A g \in DOMAIN local' :
           LastBinding(local'[g]) = Binding(now, SpanFor(local'[g], now, duration), TRUE)
  BY <1>1, <1>2, RenewedKey
<1>5. \A g \in DOMAIN local' : Told(local'[g], a)
  BY <1>2, <1>4, ToldBySignature
<1> HIDE DEF a
<1>6. asked' \in Seq(Asked) /\ Len(asked') = Len(local')
  <2>1. DOMAIN local = 1..Len(local) /\ Len(local) \in Nat
    BY <1>2 DEF Good, Key
  <2>2. asked' \in [1..Len(local) -> Asked]
    BY <1>3, <2>1
  <2> QED BY <1>4, <2>1, <2>2
<1>7. \A g \in DOMAIN local' : Told(local'[g], asked'[g])
  BY <1>3, <1>4, <1>5
<1>8. changes' \in 0..MaxChanges
  BY ChangeAssumption DEF Renew, Change, KInv
<1>9. backup' # None => Good(backup')
  BY <1>2 DEF KInv
<1> QED BY <1>2, <1>4, <1>6, <1>7, <1>8, <1>9 DEF KInv

\* `key rotate`.
LEMMA RotateK == ASSUME KInv, Rotate PROVE KInv' /\ Follows(local, local')
<1>1. PICK duration \in Durations : \E revokeOld \in BOOLEAN :
        /\ local' = RotateSubkeys(local, Len(local) + 1, now, revokeOld)
        /\ asked' = Append(asked, [by |-> "rotate", until |-> Until(duration)])
  BY DEF Rotate
<1>2. PICK revokeOld \in BOOLEAN :
        /\ local' = RotateSubkeys(local, Len(local) + 1, now, revokeOld)
        /\ asked' = Append(asked, [by |-> "rotate", until |-> Until(duration)])
  BY <1>1
<1> DEFINE a == [by |-> "rotate", until |-> IF duration = Never THEN Never ELSE now + duration]
<1>3. now \in 0..MaxTime /\ Good(local) /\ ~IsStub(local) /\ UNCHANGED <<now, backup>>
  BY DEF Rotate, Change, KInv
<1>4. asked' = Append(asked, a) /\ a \in Asked
  BY <1>2, <1>3, AskedTyped DEF Until
<1>5. a.by = "rotate"
  OBVIOUS
<1> HIDE DEF a
<1>6. /\ Good(local') /\ Len(local') = Len(local) + 1 /\ Follows(local, local')
      /\ DOMAIN local' = DOMAIN local \cup {Len(local) + 1}
      /\ \A g \in DOMAIN local : LastBinding(local'[g]) = LastBinding(local[g])
  BY <1>2, <1>3, RotatedKey
<1>7. DOMAIN local = 1..Len(local) /\ Len(local) \in Nat
  BY <1>3 DEF Good, Key
<1>8. /\ asked' \in Seq(Asked) /\ Len(asked') = Len(local')
      /\ asked'[Len(local) + 1] = a
      /\ \A g \in DOMAIN local : asked'[g] = asked[g]
  <2>1. asked \in Seq(Asked) /\ Len(asked) = Len(local)
    BY DEF KInv
  <2> QED BY <1>4, <1>6, <1>7, <2>1
<1>9. ASSUME NEW g \in DOMAIN local' PROVE Told(local'[g], asked'[g])
  <2>1. CASE g \in DOMAIN local
    <3>1. Told(local[g], asked[g])
      BY <2>1 DEF KInv
    <3>2. local[g].born = local'[g].born
      BY <1>6, <2>1 DEF Follows
    <3> QED BY <1>6, <1>8, <2>1, <3>1, <3>2, ToldBySigs
  <2>2. CASE g = Len(local) + 1
    BY <1>5, <1>8, <2>2 DEF Told
  <2> QED BY <1>6, <2>1, <2>2
<1>10. changes' \in 0..MaxChanges
  BY ChangeAssumption DEF Rotate, Change, KInv
<1>11. backup' # None => Good(backup')
  BY <1>3 DEF KInv
<1> QED BY <1>3, <1>6, <1>8, <1>9, <1>10, <1>11 DEF KInv

\* `key backup`.
LEMMA BackupK == ASSUME KInv, Backup PROVE KInv' /\ Follows(local, local')
<1>1. KInv'
  BY DEF Backup, KInv
<1>2. Follows(local, local')
  BY DEF Backup, Follows
<1> QED BY <1>1, <1>2

\* `card provision`.
LEMMA ProvisionK == ASSUME KInv, Provision PROVE KInv' /\ Follows(local, local')
<1>1. PICK serial \in Serials : local' = StubKey(local, serial)
  BY DEF Provision
<1>2. Good(local) /\ UNCHANGED <<now, backup, changes, asked>>
  BY DEF Provision, KInv
<1>3. /\ Good(local') /\ Len(local') = Len(local) /\ DOMAIN local' = DOMAIN local
      /\ Follows(local, local')
      /\ \A g \in DOMAIN local : local'[g].sigs = local[g].sigs /\ local'[g].born = local[g].born
  BY <1>1, <1>2, StubbedKey
<1>4. ASSUME NEW g \in DOMAIN local' PROVE Told(local'[g], asked'[g])
  <2>1. Told(local[g], asked[g])
    BY <1>3 DEF KInv
  <2>2. local[g].sigs = local'[g].sigs /\ local[g].born = local'[g].born
    BY <1>3
  <2> QED BY <1>2, <2>1, <2>2, ToldBySigs
<1> QED BY <1>2, <1>3, <1>4 DEF KInv

\* `key restore`, of a backup that has the packets of the key.
LEMMA RestoreK == ASSUME KInv, Restore PROVE KInv' /\ Packets(local) \subseteq Packets(local')
<1>1. /\ local' = backup /\ Good(backup) /\ Good(local) /\ Packets(local) = Packets(backup)
      /\ UNCHANGED <<now, backup, changes, asked>>
  BY DEF Restore, BackupIsCurrent, KInv
<1>2. /\ Len(local) = Len(backup) /\ DOMAIN local = DOMAIN backup
      /\ \A g \in DOMAIN local :
           local[g].sigs = backup[g].sigs /\ local[g].born = backup[g].born
  BY <1>1, SamePackets
<1>3. ASSUME NEW g \in DOMAIN local' PROVE Told(local'[g], asked'[g])
  <2>1. Told(local[g], asked[g])
    BY <1>1, <1>2 DEF KInv
  <2>2. local[g].sigs = local'[g].sigs /\ local[g].born = local'[g].born
    BY <1>1, <1>2
  <2> QED BY <1>1, <2>1, <2>2, ToldBySigs
<1>4. Packets(local) \subseteq Packets(local')
  BY <1>1
<1> QED BY <1>1, <1>2, <1>3, <1>4 DEF KInv

\* The clock.
LEMMA ClockK == ASSUME KInv, SetClock PROVE KInv' /\ Follows(local, local')
<1>1. KInv'
  BY DEF SetClock, KInv
<1>2. Follows(local, local')
  BY DEF SetClock, Follows
<1> QED BY <1>1, <1>2

\* Every step keeps the invariant and every packet.
LEMMA NextK ==
  ASSUME KInv, [Next]_vars PROVE KInv' /\ Packets(local) \subseteq Packets(local')
<1>1. ASSUME KInv' /\ Follows(local, local')
      PROVE  KInv' /\ Packets(local) \subseteq Packets(local')
  BY <1>1, FollowsKeepsPackets
<1>2. CASE Create
  BY <1>1, <1>2, CreateK
<1>3. CASE Renew
  BY <1>1, <1>3, RenewK
<1>4. CASE Rotate
  BY <1>1, <1>4, RotateK
<1>5. CASE Backup
  BY <1>1, <1>5, BackupK
<1>6. CASE Provision
  BY <1>1, <1>6, ProvisionK
<1>7. CASE Restore
  BY <1>7, RestoreK
<1>8. CASE SetClock
  BY <1>1, <1>8, ClockK
<1>9. CASE UNCHANGED vars
  <2>1. KInv'
    BY <1>9 DEF vars, KInv
  <2>2. local' = local
    BY <1>9 DEF vars
  <2> QED BY <2>1, <2>2
<1> QED BY <1>2, <1>3, <1>4, <1>5, <1>6, <1>7, <1>8, <1>9 DEF Next
-----------------------------------------------------------------------------
(* The theorems.                                                           *)

\* The invariant, in every state of every behaviour.
THEOREM Invariant == Spec => []KInv
<1>1. KInv /\ [Next]_vars => KInv'
  BY NextK
<1> QED BY <1>1, InitK, PTL DEF Spec

\* TypeOK: every variable has its type, whatever the clock says and however often the
\* key was changed; the expirations that are signed fit (create_renewed_binding_signature)
\* and a stub is a stub on one card (stub_key).
THEOREM TypeCorrect == Spec => []TypeOK
<1>1. KInv => TypeOK
  <2> SUFFICES ASSUME KInv PROVE TypeOK
    OBVIOUS
  <2>1. IsStub(local) => \A g \in DOMAIN local : local[g].secret = CardSerial(local)
    BY StubNamesCard DEF KInv
  <2> QED BY <2>1 DEF KInv, TypeOK, Good, Asked
<1> QED BY <1>1, Invariant, PTL

\* UsageKept: every binding signature of every subkey has its key flags and
\* back-signature, after any number of renewals and revocations
\* (create_renewed_binding_signature).
THEOREM FlagsAreKept == Spec => []UsageKept
<1>1. KInv => UsageKept
  BY DEF KInv, Good, Sound, UsageKept
<1> QED BY <1>1, Invariant, PTL

\* SignaturesStay: no command takes a signature or a revocation from the key
\* (renew_subkeys, rotate_subkeys, stub_key), nor does the way to a card and back.
THEOREM SignaturesAreKept == Spec => SignaturesStay
<1>1. KInv /\ [Next]_vars => [Packets(local) \subseteq Packets(local')]_vars
  BY NextK
<1> QED BY <1>1, Invariant, PTL DEF Spec, SignaturesStay

\* Numbers that are small enough are themselves modulo Wide.
LEMMA NoWrap ==
  ASSUME NEW at \in Nat, NEW born \in Nat, NEW d \in Nat, born <= at, at + d < Wide
  PROVE  (((at - born) % Wide) + d) % Wide = (at - born) + d
<1>1. \A x \in Nat : x < Wide => x % Wide = x
  BY WidthAssumption
<1>2. at - born \in Nat /\ at - born < Wide
  BY WidthAssumption
<1>3. (at - born) % Wide = at - born
  BY <1>1, <1>2
<1>4. (at - born) + d \in Nat /\ (at - born) + d < Wide
  BY <1>2, WidthAssumption
<1> QED BY <1>1, <1>3, <1>4

\* A signature that is the newest and was added last is the one that software reads.
LEMMA NewestIsCurrent ==
  ASSUME NEW subkey \in Subkey, Sound(subkey), Newest(subkey)
  PROVE  /\ CurrentBinding(subkey) = LastBinding(subkey)
         /\ LastBinding(subkey) \in Signature
         /\ subkey.born <= LastBinding(subkey).at
<1>1. PICK l \in Nat : LastOf(subkey, l)
  BY DEF Sound
<1>2. LastBinding(subkey) = subkey.sigs[l]
  BY <1>1, LastIs
<1>3. /\ \A i \in Bindings(subkey) : i \in Int /\ subkey.sigs[i] \in Signature
      /\ \A i \in Bindings(subkey) : subkey.sigs[i].at \in Int
  <2>1. \A i \in Bindings(subkey) : i \in Int /\ subkey.sigs[i] \in Signature
    BY DEF Subkey, Bindings
  <2> QED BY <2>1, WidthAssumption DEF Signature, Times
<1> DEFINE P(i) == /\ i \in Bindings(subkey)
                   /\ \A j \in Bindings(subkey) :
                        \/ subkey.sigs[j].at < subkey.sigs[i].at
                        \/ subkey.sigs[j].at = subkey.sigs[i].at /\ j <= i
<1>4. \A j \in Bindings(subkey) : subkey.sigs[j].at <= subkey.sigs[l].at /\ j <= l
  BY <1>1, <1>2 DEF Newest, LastOf
<1>5. l \in Bindings(subkey)
  BY <1>1 DEF LastOf
<1>6. P(l)
  BY <1>3, <1>4, <1>5
<1>7. \A i : P(i) => i = l
  BY <1>3, <1>4, <1>5
<1>8. CurrentBinding(subkey) = subkey.sigs[CHOOSE i : P(i)]
  BY DEF CurrentBinding
<1> HIDE DEF P
<1>9. (CHOOSE i : P(i)) = l
  BY <1>6, <1>7
<1>10. subkey.born <= subkey.sigs[l].at
  BY <1>4 DEF Sound
<1> QED BY <1>2, <1>3, <1>5, <1>8, <1>9, <1>10

\* ExpiryAsAsked: subkeys expire when `key create` and `key renew` were asked to let
\* them expire, after any number of renewals and revocations, on any number of cards.
\* No time that --expiration names is beyond the 64 bits of a count of seconds
\* (create_renewed_binding_signature adds without a check for that).
THEOREM SubkeysExpireAsAsked ==
  ASSUME \A d \in Spells : MaxTime + d < Wide
  PROVE  Spec => []ExpiryAsAsked
<1>1. ASSUME KInv, NEW g \in DOMAIN local, asked[g].by # "rotate", Newest(local[g])
      PROVE  ExpiresAt(local[g]) =
               IF asked[g].until = local[g].born THEN Never ELSE asked[g].until
  <2> DEFINE x == local[g]
  <2> DEFINE last == LastBinding(x)
  <2> DEFINE until == asked[g].until
  <2>1. x \in Subkey /\ Sound(x)
    BY <1>1 DEF KInv, Good, Key
  <2>2. CurrentBinding(x) = last /\ last \in Signature /\ x.born <= last.at
    BY <1>1, <2>1, NewestIsCurrent
  <2>3. last.at \in Nat /\ x.born \in Nat
    BY <2>1, <2>2, WidthAssumption DEF Signature, Subkey, Times
  <2>4. /\ last.at <= MaxTime
        /\ \/ until = Never /\ last.span = Never
           \/ \E d \in Spells : /\ until = last.at + d
                                /\ last.span = (((last.at - x.born) % Wide) + d) % Wide
    BY <1>1 DEF KInv, Told
  <2>5. ExpiresAt(x) = IF last.span \in {Never, 0} THEN Never ELSE x.born + last.span
    BY <2>2 DEF ExpiresAt
  <2> HIDE DEF x, last, until
  <2>6. CASE until = Never /\ last.span = Never
    <3>1. until # x.born
      BY <2>3, <2>6 DEF Never
    <3> QED BY <2>5, <2>6, <3>1 DEF x, until
  <2>7. ASSUME NEW d \in Spells, until = last.at + d,
               last.span = (((last.at - x.born) % Wide) + d) % Wide
        PROVE  ExpiresAt(x) = IF until = x.born THEN Never ELSE until
    <3>1. d \in Nat /\ last.at + d < Wide
      BY <2>3, <2>4, SpellAssumption, TimeAssumption, WidthAssumption
    <3>2. last.span = (last.at - x.born) + d
      BY <2>2, <2>3, <2>7, <3>1, NoWrap
    <3>3. last.span \in Nat /\ x.born + last.span = until
      BY <2>2, <2>3, <2>7, <3>1, <3>2
    <3>4. CASE last.span = 0
      BY <2>3, <2>5, <3>3, <3>4
    <3>5. CASE last.span # 0
      BY <2>3, <2>5, <3>3, <3>5 DEF Never
    <3> QED BY <3>4, <3>5
  <2> QED BY <2>4, <2>6, <2>7 DEF x, until
<1>2. KInv => ExpiryAsAsked
  BY <1>1 DEF ExpiryAsAsked
<1> QED BY <1>2, Invariant, PTL
=============================================================================
