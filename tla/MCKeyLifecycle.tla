--------------------------- MODULE MCKeyLifecycle ---------------------------
(* Instances of KeyLifecycle for TLC. *)
EXTENDS KeyLifecycle, TLC

ProcSymmetry == Permutations(Procs)
=============================================================================
