-------------------------------- MODULE Sums --------------------------------
(***************************************************************************)
(* Sums of amounts over finite sets: what the players of a table hold or   *)
(* have bet, what the messages of a queue carry.  A sum is counted unit by *)
(* unit, so that facts about it are facts about finite sets.               *)
(***************************************************************************)
EXTENDS Integers, FiniteSets

(* A function of natural numbers has f[p] units at p.                      *)
Units(f) == UNION {{p} \X (1 .. f[p]) : p \in DOMAIN f}

Sum(f) == Cardinality(Units(f))

(* Amounts of either sign: what is received, what is paid, and the net.    *)
Received(f) == [p \in DOMAIN f |-> IF f[p] > 0 THEN f[p] ELSE 0]
Paid(f) == [p \in DOMAIN f |-> IF f[p] < 0 THEN -f[p] ELSE 0]

NetSum(f) == Sum(Received(f)) - Sum(Paid(f))

=============================================================================
