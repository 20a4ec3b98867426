----------------------------- MODULE ImageStore -----------------------------
(***************************************************************************)
(* What kdub promises about Tails images, without files, blocks or         *)
(* commands.  The cache holds genuine images of releases and nothing else; *)
(* once it holds one it never runs empty.  A flash takes an image that is  *)
(* in the cache, and what it reports as written is that image, whatever    *)
(* has become of the cache meanwhile.                                      *)
(***************************************************************************)
EXTENDS Naturals

CONSTANT MaxVersion

VARIABLES
  released,   \* the latest release
  image,      \* what the cache holds of each release
  taken,      \* releases that a flash has taken from the cache
  written     \* the release that was reported as written to the stick, or 0

vars == <<released, image, taken, written>>

Versions == 1..MaxVersion
Cached == {v \in Versions : image[v] = "genuine"}

Init ==
  /\ released = 1 /\ image = [v \in Versions |-> "absent"]
  /\ taken = {} /\ written = 0

Release ==
  /\ released' \in Versions /\ released' > released
  /\ UNCHANGED <<image, taken, written>>

Add(v) ==
  /\ v <= released
  /\ image' = [image EXCEPT ![v] = "genuine"]
  /\ UNCHANGED <<released, taken, written>>

Evict(gone) ==
  /\ ~(Cached \subseteq gone)
  /\ image' = [v \in Versions |-> IF v \in gone THEN "absent" ELSE image[v]]
  /\ UNCHANGED <<released, taken, written>>

Take(v) ==
  /\ v \in Cached
  /\ taken' = taken \cup {v}
  /\ UNCHANGED <<released, image, written>>

Write(v) ==             \* from the first block on nothing else is on the stick
  /\ v \in taken
  /\ written' = 0
  /\ UNCHANGED <<released, image, taken>>

Report(v) ==
  /\ v \in taken
  /\ written' = v /\ taken' = taken \ {v}
  /\ UNCHANGED <<released, image>>

GiveUp(v) ==
  /\ taken' = taken \ {v}
  /\ UNCHANGED <<released, image, written>>

Next ==
  \/ Release
  \/ \E v \in Versions : Add(v) \/ Take(v) \/ Write(v) \/ Report(v) \/ GiveUp(v)
  \/ \E gone \in SUBSET Versions : Evict(gone)

Spec == Init /\ [][Next]_vars
=============================================================================
