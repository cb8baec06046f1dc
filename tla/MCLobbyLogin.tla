---------------------------- MODULE MCLobbyLogin ----------------------------
(* LobbyLogin on a small instance.                                         *)
EXTENDS LobbyLogin, TLC

Symmetry == Permutations(Uid) \cup Permutations(Sock)
=============================================================================
