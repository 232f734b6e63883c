------------------------------ MODULE MCBackends ------------------------------
(* An instance of Backends for TLC. *)
EXTENDS Backends, TLC

Symmetry == Permutations(Threads) \cup Permutations(Caches)
=============================================================================
