-------------------------------- MODULE MCManage --------------------------------
EXTENDS ManageUsers, TLC

Symmetry == Permutations(Threads \ {Loop}) \cup Permutations(Names \ {Root})
=============================================================================
