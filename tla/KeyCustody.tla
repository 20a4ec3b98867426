----------------------------- MODULE KeyCustody -----------------------------
(***************************************************************************)
(* What kdub promises about secret key material, without files, commands   *)
(* or processes.  A generation is one set of subkeys (the first comes with *)
(* the key, every `key rotate` adds another).  "local" and "vault" are the *)
(* generations whose secrets can be used from the identity store and from  *)
(* the backup directory; "secured" are those a finished `key backup` has   *)
(* reported to the owner as backed up.  A store may change, or become      *)
(* unreadable, only while the other one holds everything secured, and      *)
(* nothing may be reported that neither holds.                             *)
(***************************************************************************)
CONSTANT Gens

VARIABLES local, vault, secured

vars == <<local, vault, secured>>

Init ==
  /\ local = {}
  /\ vault \in SUBSET Gens
  /\ secured \in SUBSET vault

StoreWrite ==
  /\ local' \in SUBSET Gens
  /\ secured \subseteq vault \/ secured \subseteq local'
  /\ UNCHANGED <<vault, secured>>

VaultWrite ==
  /\ vault' \in SUBSET Gens
  /\ secured \subseteq local \/ secured \subseteq vault'
  /\ UNCHANGED <<local, secured>>

Acknowledge ==
  /\ secured' \in SUBSET Gens
  /\ secured \subseteq secured'
  /\ secured' \subseteq local \/ secured' \subseteq vault
  /\ UNCHANGED <<local, vault>>

Next == StoreWrite \/ VaultWrite \/ Acknowledge

Spec == Init /\ [][Next]_vars
=============================================================================
