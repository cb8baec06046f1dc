----------------------------- MODULE MCLandGame -----------------------------
EXTENDS LandGame, TLC

(* Five cards: three singles and two of a value, which are the bomb; and   *)
(* the entry 0x00, which has the logic value of a king and makes a pair    *)
(* with one.  A single is beaten by a higher one, and all by the bomb.     *)
Cards == {"3", "K", "2", "2b", "J"}
Value == ("3" :> 3) @@ ("K" :> 13) @@ ("0" :> 13) @@ ("2" :> 15)
         @@ ("2b" :> 15) @@ ("J" :> 17)

Twos == {"2", "2b"}
Plays == {{k} : k \in Cards \cup {"0"}} \cup {{"K", "0"}, Twos}
Bombs == {Twos}
Higher == {b \in Plays \X Plays :
    /\ b[1] # Twos
    /\ \/ b[2] = Twos
       \/ /\ Cardinality(b[1]) = Cardinality(b[2])
          /\ \A k \in b[1], l \in b[2] : Value[k] < Value[l]}

(* What seats 0, 1, 2 are dealt; the rest is for the landlord.  Any of the *)
(* seats may bid first, so each hand may be the first bidder's.            *)
Dealt(a, b, c) ==
    [k \in Cards |-> IF k \in a THEN 0 ELSE IF k \in b THEN 1
                     ELSE IF k \in c THEN 2 ELSE Back]
OneDeal == {Dealt({"3"}, {"K", "2"}, {"J"})}

=============================================================================
