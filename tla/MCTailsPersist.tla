--------------------------- MODULE MCTailsPersist ---------------------------
(* Instances of TailsPersist for TLC. *)
EXTENDS TailsPersist, FiniteSets, TLC

StickSymmetry == Permutations(Procs) \cup Permutations(Sticks)

\* Bound: once a `tails flash` has accepted a stick, either only one stick holds
\* anything or is worked on, or every stick has a run of its own; before that, all
\* that runs leave behind on any of them is explored.
InUse == Busy \cup {d \in Sticks : disk[d] # {}}
EachHasARun == \A d \in Sticks : \E p \in Procs : proc[p].stick = d
FlashesFewSticks == flashes > 0 => EachHasARun \/ Cardinality(InUse) <= 1
=============================================================================
