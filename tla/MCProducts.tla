------------------------------ MODULE MCProducts ------------------------------
(* An instance of Products for TLC. *)
EXTENDS Products, TLC

CONSTANTS t1, t2

Symmetry == Permutations(Ids) \cup Permutations(Values) \cup Permutations({t1, t2})
=============================================================================
