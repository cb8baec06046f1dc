----------------------------- MODULE MCGameRoom -----------------------------
EXTENDS GameRoom, TLC

CONSTANTS p1, p2, p3

(* Every player has an address of its own.                                 *)
OwnIp == [p \in Player |-> p]

(* p1 and p2 connect from the same address, p3 from an unknown one.  The   *)
(* address is not written p1, so that p1 and p2 can change places.         *)
SharedIp == (p1 :> p3) @@ (p2 :> p3) @@ (p3 :> NoIp)

Symmetry == Permutations({p1, p2})

=============================================================================
