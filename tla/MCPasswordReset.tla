--------------------------- MODULE MCPasswordReset ---------------------------
(* Instances of PasswordReset. *)
EXTENDS PasswordReset, TLC

Symmetry == Permutations(Threads) \cup Permutations(Users) \cup Permutations(Tokens)
=============================================================================
