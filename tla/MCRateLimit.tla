----------------------------- MODULE MCRateLimit ------------------------------
(* An instance of RateLimit for TLC: no request behind the limiters. *)
EXTENDS RateLimit, TLC

Symmetry == Permutations(Calls) \cup Permutations(Hosts)
=============================================================================
