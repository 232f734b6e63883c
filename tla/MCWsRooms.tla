------------------------------ MODULE MCWsRooms ------------------------------
(* Instances of WsRooms. *)
EXTENDS WsRooms, TLC

Symmetry == Permutations(Sockets) \cup Permutations(Rooms)
=============================================================================
