----------------------------- MODULE KeyExpiry -----------------------------
(***************************************************************************)
(* One key over time: what `key create`, `renew`, `rotate`, `backup`,      *)
(* `restore` and `card provision` do to its signature packets, and when    *)
(* its subkeys expire, as software that reads the key sees it.  Commands   *)
(* are one step each here; KeyLifecycle has the writes of their files.     *)
(***************************************************************************)
EXTENDS KeyPackets

CONSTANTS
  Spells,       \* what --expiration can be but for `never`; `0d` is one of them
  MaxTime,      \* bound: the clock
  MaxChanges,   \* bound: how often the key is renewed or rotated
  None          \* the backup before there is one

ASSUME SpellAssumption == Spells \subseteq Nat
ASSUME TimeAssumption == MaxTime \in Nat /\ MaxTime < Wide
ASSUME ChangeAssumption == MaxChanges \in Nat
ASSUME NoneAssumption == None \notin Key

Durations == Spells \cup {Never}

VARIABLES
  now,       \* the clock of the computer
  local,     \* the key file, <<>> before `key create`
  backup,    \* certify-key.asc
  changes,   \* renewals and rotations so far
  asked      \* for each subkey: the command that set its expiration last, and to what

vars == <<now, local, backup, changes, asked>>

Init ==
  /\ now = 0
  /\ local = <<>> /\ backup = None
  /\ changes = 0 /\ asked = <<>>

Until(duration) == IF duration = Never THEN Never ELSE now + duration

Create ==
  /\ local = <<>>
  /\ \E duration \in Durations :
       /\ CanRenew(<<NewSubkey(1, now)>>, now, duration)
       /\ local' = GenerateKey(1, now, duration)
       /\ asked' = <<[by |-> "create", until |-> Until(duration)]>>
  /\ UNCHANGED <<now, backup, changes>>

\* Both refuse a key that is on a card.
Change ==
  /\ local # <<>> /\ ~IsStub(local)
  /\ changes < MaxChanges /\ changes' = changes + 1
  /\ UNCHANGED <<now, backup>>

Renew ==
  /\ Change
  /\ \E duration \in Durations :
       /\ CanRenew(local, now, duration)
       /\ local' = RenewSubkeys(local, now, duration)
       /\ asked' = [g \in DOMAIN local |-> [by |-> "renew", until |-> Until(duration)]]

Rotate ==
  /\ Change
  /\ \E duration \in Durations, revokeOld \in BOOLEAN :
       /\ local' = RotateSubkeys(local, Len(local) + 1, now, revokeOld)
       /\ asked' = Append(asked, [by |-> "rotate", until |-> Until(duration)])

Backup ==
  /\ local # <<>>
  /\ backup' = local
  /\ UNCHANGED <<now, local, changes, asked>>

\* A careful owner gives a key to a card, and takes one back, with a backup that
\* is up to date.
BackupIsCurrent == backup # None /\ Packets(backup) = Packets(local)

Provision ==
  /\ local # <<>> /\ ~IsStub(local) /\ BackupIsCurrent
  /\ \E serial \in Serials : local' = StubKey(local, serial)
  /\ UNCHANGED <<now, backup, changes, asked>>

Restore ==
  /\ BackupIsCurrent
  /\ local' = backup
  /\ UNCHANGED <<now, backup, changes, asked>>

\* Time passes, or somebody sets the clock.
SetClock ==
  /\ now' \in 0..MaxTime
  /\ UNCHANGED <<local, backup, changes, asked>>

Next == Create \/ Renew \/ Rotate \/ Backup \/ Provision \/ Restore \/ SetClock

Spec == Init /\ [][Next]_vars
-----------------------------------------------------------------------------
\* The type of every variable; an expiration that does not fit is never signed, and
\* what `card provision` leaves is a stub on one card, which its message names.
TypeOK ==
  /\ now \in 0..MaxTime
  /\ local \in Key
  /\ IsStub(local) => \A g \in DOMAIN local : local[g].secret = CardSerial(local)
  /\ backup \in Key \cup {None}
  /\ changes \in 0..MaxChanges
  /\ asked \in Seq([by : {"create", "renew", "rotate"}, until : Nat \cup {Never}])

\* The clock was not behind when the last signature was made; otherwise those who
\* read the key go by an earlier one.
Newest(subkey) ==
  \A i \in Bindings(subkey) : subkey.sigs[i].at <= LastBinding(subkey).at

\* After `key create` and `key renew` have reported success every subkey expires
\* when they were asked to let it expire, as software that reads the key sees it:
\* also with several signatures of the same second, after revocations, for subkeys of
\* different ages, and after a way to the card and back (renew_subkeys: "the effective
\* expiry date is now + expiration_duration").  Only a subkey that was to expire in the
\* second of its birth never does.
ExpiryAsAsked ==
  \A g \in DOMAIN local :
    asked[g].by # "rotate" /\ Newest(local[g]) =>
      ExpiresAt(local[g]) = IF asked[g].until = local[g].born THEN Never ELSE asked[g].until

\* No renewal, however often and after whatever revocation, costs a subkey its key
\* flags or its back-signature (create_renewed_binding_signature copies them).
UsageKept ==
  \A g \in DOMAIN local : \A i \in Bindings(local[g]) : local[g].sigs[i].usage

\* No signature, a revocation above all, ever disappears from the key, for an owner
\* who moves the key to a card and back with an up-to-date backup (rotate_subkeys
\* and renew_subkeys append, stub_key keeps the signatures).
SignaturesStay == [][Packets(local) \subseteq Packets(local')]_vars
=============================================================================
