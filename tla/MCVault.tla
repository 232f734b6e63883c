------------------------------- MODULE MCVault -------------------------------
(* An instance of Vault: the application and a flex-encrypt command. *)
EXTENDS Vault, TLC

CONSTANTS ui, cli, app, command

AppAndCli == (ui :> app @@ cli :> command)

Symmetry == Permutations(Secrets) \cup Permutations(Keys)
=============================================================================
