----------------------------- MODULE KeyPackets -----------------------------
(***************************************************************************)
(* The signature packets of one OpenPGP key, and what `key create`,        *)
(* `key renew`, `key rotate` and `card provision` make of them.            *)
(*                                                                         *)
(* The sign, encrypt and auth subkey of a generation are made and changed  *)
(* together, so one record stands for the three.  Times and spans are in   *)
(* seconds; a span is counted from the birth of the subkey it is for.      *)
(***************************************************************************)
EXTENDS Integers, Sequences

CONSTANTS
  Wide,      \* 2^64: seconds are counted modulo this
  MaxSpan,   \* the longest span a signature can hold (32 bits of seconds)
  Serials,   \* serial numbers of cards
  Here       \* where a secret is that has not been moved to a card

ASSUME WidthAssumption == MaxSpan \in Nat /\ Wide \in Nat /\ MaxSpan < Wide
ASSUME HereAssumption == Here \notin Serials

Never == -1
Times == 0..(Wide - 1)
Spans == (0..MaxSpan) \cup {Never}

\* usage: the signature has the key flags and the back-signature of the subkey.
Signature == [typ : {"binding", "revocation"}, at : Times, span : Spans, usage : BOOLEAN]
Subkey == [id : Nat, born : Times, sigs : Seq(Signature), secret : Serials \cup {Here}]
Key == Seq(Subkey)

Bindings(subkey) == {i \in DOMAIN subkey.sigs : subkey.sigs[i].typ = "binding"}
Revoked(subkey) == \E i \in DOMAIN subkey.sigs : subkey.sigs[i].typ = "revocation"

\* The binding signature that was added last.
LastBinding(subkey) ==
  subkey.sigs[CHOOSE i \in Bindings(subkey) : \A j \in Bindings(subkey) : j <= i]

Binding(now, span, usage) ==
  [typ |-> "binding", at |-> now, span |-> span, usage |-> usage]

\* Mutant: the span is counted from now.
SpanForFromNow(subkey, now, duration) == IF duration = Never THEN Never ELSE duration

\* The span from the birth of the subkey until duration from now.
SpanFor(subkey, now, duration) ==
  IF duration = Never THEN Never
  ELSE (((now - subkey.born) % Wide) + duration) % Wide

\* Mutant: the flags are copied from the last signature, whatever it is.
RenewedAfterAny(subkey, now, duration) ==
  [subkey EXCEPT !.sigs = Append(@,
     Binding(now, SpanFor(subkey, now, duration), @[Len(@)].usage))]

\* Mutant: the new signature replaces the others.
RenewedAlone(subkey, now, duration) ==
  [subkey EXCEPT !.sigs = <<Binding(now, SpanFor(subkey, now, duration),
                                    LastBinding(subkey).usage)>>]

\* create_renewed_binding_signature, appended to the others.
Renewed(subkey, now, duration) ==
  [subkey EXCEPT !.sigs = Append(@,
     Binding(now, SpanFor(subkey, now, duration), LastBinding(subkey).usage))]

\* Mutant: a span of any length is taken.
CanRenewAny(key, now, duration) == TRUE

\* PgpDuration::try_from refuses a span that is too long, and with it the renewal.
CanRenew(key, now, duration) ==
  \A g \in DOMAIN key : SpanFor(key[g], now, duration) \in Spans

RenewSubkeys(key, now, duration) ==
  [g \in DOMAIN key |-> Renewed(key[g], now, duration)]

\* A new subkey, without an expiration.
NewSubkey(id, now) ==
  [id |-> id, born |-> now, secret |-> Here, sigs |-> <<Binding(now, Never, TRUE)>>]

GenerateKey(id, now, duration) ==
  LET key == <<NewSubkey(id, now)>> IN
  IF duration = Never THEN key ELSE RenewSubkeys(key, now, duration)

RevokedOne(subkey, now) ==
  [subkey EXCEPT !.sigs = Append(@,
     [typ |-> "revocation", at |-> now, span |-> Never, usage |-> FALSE])]

\* The expiration is parsed and goes no further.
RotateSubkeys(key, id, now, revokeOld) ==
  Append([g \in DOMAIN key |-> IF revokeOld THEN RevokedOne(key[g], now) ELSE key[g]],
         NewSubkey(id, now))

\* Instead of each secret a note (GNU S2K mode 1002) of the card that has it, from which
\* a stub is known, and the card that it is on.
StubKey(key, serial) == [g \in DOMAIN key |-> [key[g] EXCEPT !.secret = serial]]
IsStub(key) == \E g \in DOMAIN key : key[g].secret \in Serials
CardSerial(key) ==
  key[CHOOSE g \in DOMAIN key : /\ key[g].secret \in Serials
                               /\ \A h \in 1..(g - 1) : key[h].secret = Here].secret

\* What a public key consists of.
Packets(key) ==
  UNION {{[id |-> key[g].id, born |-> key[g].born, nth |-> i, sig |-> key[g].sigs[i]] :
            i \in DOMAIN key[g].sigs} : g \in DOMAIN key}

\* What OpenPGP software reads: the newest binding signature counts, of several
\* with the same time the last; a span of zero means no expiration.
CurrentBinding(subkey) ==
  subkey.sigs[CHOOSE i \in Bindings(subkey) : \A j \in Bindings(subkey) :
    \/ subkey.sigs[j].at < subkey.sigs[i].at
    \/ subkey.sigs[j].at = subkey.sigs[i].at /\ j <= i]

ExpiresAt(subkey) ==
  LET span == CurrentBinding(subkey).span IN
  IF span \in {Never, 0} THEN Never ELSE subkey.born + span
=============================================================================
