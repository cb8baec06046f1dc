---------------------------- MODULE MCBankerTable ----------------------------
EXTENDS BankerTable, TLC

CONSTANTS p1, p2, p3

(* One of the players can lock, bet and pay; together they can replace one *)
(* banker.                                                                 *)
Balances == {(p1 :> 2) @@ (p2 :> 1) @@ (p3 :> 1)}

(* Two players are enough for what has to happen in the end.               *)
TwoBalances == {(p1 :> 4) @@ (p2 :> 3)}

(* A banker that stays one round only loses what it won.                   *)
FirstRound == (1 :> 100)

=============================================================================
