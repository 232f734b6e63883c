------------------------------- MODULE MCProbes -------------------------------
(* An instance of Probes for TLC: two pages, and no request of the API. *)
EXTENDS Probes
=============================================================================
