--------------------------- MODULE MCSvrHandoff ----------------------------
(* SvrHandoff on small instances.                                          *)
EXTENDS SvrHandoff, TLC

CONSTANTS g1, g2, h1, h2
Symmetric == Permutations(Server) \cup Permutations(Handle)
=============================================================================
