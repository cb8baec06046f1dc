--------------------------- MODULE MCAccountSync ---------------------------
(* AccountSync on a small instance: one coin is added or taken at a time.  *)
EXTENDS AccountSync

OneCoin == {-1, 1}
=============================================================================
