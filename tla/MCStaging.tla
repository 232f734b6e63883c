------------------------------ MODULE MCStaging ------------------------------
(* Instances of Staging for TLC. *)
EXTENDS Staging, TLC

Symmetry == Permutations(Threads) \cup Permutations(Names) \cup Permutations(Sessions)
=============================================================================
