----------------------------- MODULE MatchMaking -----------------------------
(***************************************************************************)
(* What a matching room promises, without queue, tables, chairs or         *)
(* readiness: players come and go; now and then a full company of players  *)
(* that may meet is taken out of those who are not playing and plays one   *)
(* game together.  Nobody joins, leaves or is in two games meanwhile, and  *)
(* when blockers are kept, players that have just met avoid each other     *)
(* until their next game has ended.                                        *)
(***************************************************************************)
EXTENDS Naturals, FiniteSets

CONSTANTS Player, Ip, NoIp, Chairs, IsAddBlockers

VARIABLES
    idle,     \* players on the server that are not playing
    games,    \* the companies that are playing
    avoids    \* whom each player avoids

vars == <<idle, games, avoids>>

Init ==
    /\ idle = {}
    /\ games = {}
    /\ avoids = [p \in Player |-> {}]

AvoidedIps(p) == {Ip[q] : q \in avoids[p]} \ {Ip[p], NoIp}

MayMeet(p, q) ==
    /\ Ip[p] = Ip[q] => Ip[p] = NoIp
    /\ q \notin avoids[p] /\ p \notin avoids[q]
    /\ Ip[q] \notin AvoidedIps(p) /\ Ip[p] \notin AvoidedIps(q)

Come(p) ==
    /\ p \notin idle \cup UNION games
    /\ idle' = idle \cup {p}
    /\ UNCHANGED <<games, avoids>>

Go(p) ==
    /\ p \in idle
    /\ idle' = idle \ {p}
    /\ UNCHANGED <<games, avoids>>

Start(company) ==
    /\ company \subseteq idle
    /\ Cardinality(company) = Chairs
    /\ \A p, q \in company : p # q => MayMeet(p, q)
    /\ idle' = idle \ company
    /\ games' = games \cup {company}
    /\ UNCHANGED avoids

End(company) ==
    /\ company \in games
    /\ idle' = idle \cup company
    /\ games' = games \ {company}
    /\ avoids' = [p \in Player |-> IF IsAddBlockers /\ p \in company
                                   THEN company \ {p} ELSE avoids[p]]

Next ==
    \/ \E p \in Player : Come(p) \/ Go(p)
    \/ \E company \in SUBSET Player : Start(company) \/ End(company)

Spec == Init /\ [][Next]_vars

=============================================================================
