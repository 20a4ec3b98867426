-------------------------- MODULE PersistentStick --------------------------
(***************************************************************************)
(* What `tails persist` promises about USB sticks, without processes and   *)
(* their steps.  A stick is reported as ready when everything Tails looks  *)
(* for is on it and its volume is locked; from then on nothing but a new   *)
(* flash touches it.  Its file system is written while it is unlocked and  *)
(* at no other time, and one stick at a time is unlocked.                  *)
(*                                                                         *)
(* A flash may come at any time.  One that hits a stick somebody is busy   *)
(* with spoils it: it may be reported all the same, and be changed after   *)
(* that, until it is flashed with nobody busy.                             *)
(***************************************************************************)
CONSTANTS
  Sticks,
  NoStick,
  Required,   \* what Tails looks for
  Inside,     \* what is in the encrypted file system
  Work        \* all that can be done to a stick

VARIABLES
  content,    \* what has been done to each stick
  unlocked,   \* the stick that is unlocked
  mounted,    \* is its file system mounted
  ready,      \* sticks reported as ready
  busy,       \* sticks that somebody is at work on
  spoilt      \* sticks that were flashed meanwhile

vars == <<content, unlocked, mounted, ready, busy, spoilt>>

Init ==
  /\ content = [d \in Sticks |-> {}]
  /\ unlocked = NoStick /\ mounted = FALSE
  /\ ready = {} /\ busy = {} /\ spoilt = {}

Kept == ready \ spoilt

Change(d) ==
  /\ d \notin Kept
  /\ content' \in [Sticks -> SUBSET Work]
  /\ \A e \in Sticks \ {d} : content'[e] = content[e]
  /\ d # unlocked => content'[d] \cap Inside \subseteq content[d]
  /\ busy' = busy \cup {d}
  /\ UNCHANGED <<unlocked, mounted, ready, spoilt>>

\* Whoever begins with a stick need not get far with it.
Begin(d) ==
  /\ busy' = busy \cup {d}
  /\ UNCHANGED <<content, unlocked, mounted, ready, spoilt>>

Leave(d) ==
  /\ busy' = busy \ {d}
  /\ UNCHANGED <<content, unlocked, mounted, ready, spoilt>>

Unlock(d) ==
  /\ unlocked = NoStick /\ d \notin Kept /\ d \in busy
  /\ unlocked' = d
  /\ UNCHANGED <<content, mounted, ready, busy, spoilt>>

Mount ==
  /\ unlocked # NoStick /\ ~mounted
  /\ mounted' = TRUE
  /\ UNCHANGED <<content, unlocked, ready, busy, spoilt>>

Unmount ==
  /\ mounted' = FALSE
  /\ UNCHANGED <<content, unlocked, ready, busy, spoilt>>

Lock ==
  /\ unlocked' = NoStick /\ mounted' = FALSE
  /\ busy' \in {busy, busy \ {unlocked}}
  /\ UNCHANGED <<content, ready, spoilt>>

Finish ==
  /\ unlocked # NoStick /\ ~mounted
  /\ unlocked \notin spoilt => Required \subseteq content[unlocked]
  /\ ready' = ready \cup {unlocked}
  /\ unlocked' = NoStick
  /\ busy' \in {busy, busy \ {unlocked}}
  /\ UNCHANGED <<content, mounted, spoilt>>

Erase(d) ==
  /\ content' = [content EXCEPT ![d] = {}]
  /\ ready' = ready \ {d}
  /\ spoilt' = IF d \in busy THEN spoilt \cup {d} ELSE spoilt \ {d}
  /\ UNCHANGED <<unlocked, mounted, busy>>

Next ==
  \/ \E d \in Sticks : Change(d) \/ Begin(d) \/ Leave(d) \/ Unlock(d) \/ Erase(d)
  \/ Mount \/ Unmount \/ Lock \/ Finish

Spec == Init /\ [][Next]_vars
=============================================================================
