---------------------------- MODULE MCNavigation ----------------------------
(* Instances of Navigation. *)
EXTENDS Navigation, TLC
=============================================================================
