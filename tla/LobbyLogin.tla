----------------------------- MODULE LobbyLogin -----------------------------
(***************************************************************************)
(* The lobby server's client sockets and player objects: login, repeated   *)
(* login, takeover of a player by a second connection, asynchronous        *)
(* loading of a player's data by the database threads, disconnection,      *)
(* heartbeat timeout, a kick by PHP, maintenance, and the recovery timer   *)
(* that deletes player objects nobody uses any more.                       *)
(*                                                                         *)
(* The lobby runs one thread; each action below is one packet handler, one *)
(* timer callback or one callback of a database reply, run to its end.     *)
(* The database threads are the queues of `loads`: a request that is       *)
(* pending, executed or answered is one entry, because nothing in the      *)
(* lobby can tell the three apart before the reply is handled.             *)
(***************************************************************************)
EXTENDS Naturals, Sequences

CONSTANTS
    Uid,          \* player ids
    Sock,         \* ClientHandle objects; the pool hands a closed one out again
    NoUid,        \* the uid 0 of a socket nobody has logged in on
    NoSock,       \* m_pSession == NULL
    Unset,        \* m_disconnectTime == 0
    NoRow,        \* the uids the account tables have no row for
    LoadTimeout,  \* SECONDS_IN_MIN in NeedRecover, in clock steps
    OfflineTime,  \* s_OfflineTime, in clock steps
    MaxQueue,     \* bound: requests waiting at one database thread
    Followed      \* bound: the parts of the data whose modifications are followed

ASSUME NullAssumption == NoUid \notin Uid /\ NoSock \notin Sock /\ Unset \notin Nat
ASSUME BoundAssumption == LoadTimeout \in Nat /\ OfflineTime \in Nat /\ MaxQueue \in Nat

VARIABLES
    sock,     \* the ClientHandle objects
    player,   \* the map CPlayerMgr::m_mpPlayers of CPlayer objects
    loads,    \* the queues of the database threads, replies included
    status    \* CApplication::GetStatus

vars == <<sock, player, loads, status>>

-----------------------------------------------------------------------------
(* The parts of a player's data, named after the database thread that      *)
(* loads them: the account thread answers the queries of the user row, the *)
(* account row and the game rows one after the other, so they are one part *)
(* here; the missions come from a thread of their own.  An object has the  *)
(* parts that have arrived, `loaded`, and those it has modified since they *)
(* last did, `changed`.                                                    *)
Part == {"account", "mission"}

LoadAge == 0 .. LoadTimeout + 1
OffAge == 0 .. OfflineTime + 1

Player ==
    [state : {"none", "load", "playing"},
     session : Sock \cup {NoSock},
     loaded : SUBSET Part,
     changed : SUBSET Part,
     loadAge : LoadAge,
     off : OffAge \cup {Unset},
     kicked : BOOLEAN,
     away : BOOLEAN]

Nobody ==
    [state |-> "none", session |-> NoSock, loaded |-> {}, changed |-> {},
     loadAge |-> 0, off |-> Unset, kicked |-> FALSE, away |-> FALSE]

Handle == [open : BOOLEAN, alive : BOOLEAN, uid : Uid \cup {NoUid}]
Closed == [open |-> FALSE, alive |-> FALSE, uid |-> NoUid]

Exists(u) == player[u].state # "none"
Loading(u) == player[u].state = "load"
Playing(u) == player[u].state = "playing"

TypeOK ==
    /\ sock \in [Sock -> Handle]
    /\ player \in [Uid -> Player]
    /\ loads \in [Part -> Seq(Uid)]
    /\ status \in {"running", "repair"}

Init ==
    /\ sock = [s \in Sock |-> Closed]
    /\ player = [u \in Uid |-> Nobody]
    /\ loads = [t \in Part |-> <<>>]
    /\ status = "running"

-----------------------------------------------------------------------------
(* Logging in.                                                             *)

Connect(s) ==
    /\ ~sock[s].open
    /\ sock' = [sock EXCEPT ![s] = [open |-> TRUE, alive |-> TRUE, uid |-> NoUid]]
    /\ UNCHANGED <<player, loads, status>>

(* CPlayer::OnLogin asks for every part again and restarts the load clock; *)
(* the marks of the parts that have arrived stay.                          *)
OnLogin(u, p) ==
    /\ player' = [player EXCEPT ![u] = [p EXCEPT !.state = "load", !.loadAge = 0]]
    /\ loads' = [t \in Part |-> Append(loads[t], u)]

CanLogin(s) ==
    /\ sock[s].open /\ sock[s].alive
    /\ status # "repair"
    /\ \A t \in Part : Len(loads[t]) < MaxQueue

(* The socket already carries a player: whatever uid the packet names, it  *)
(* is that player that is loaded again, or merely shown its data again.    *)
LoggedIn(s) == sock[s].uid # NoUid /\ Exists(sock[s].uid)

LoginAgain(s) ==
    /\ CanLogin(s)
    /\ LoggedIn(s)
    /\ Loading(sock[s].uid)
    /\ OnLogin(sock[s].uid, player[sock[s].uid])
    /\ UNCHANGED <<sock, status>>

(* Another connection of a player that is online takes the player over and *)
(* the old connection is destroyed.                                        *)
TakeOverKeepsOld(s, u) ==      \* fault: the old connection keeps its uid
    /\ CanLogin(s)
    /\ ~LoggedIn(s)
    /\ Exists(u)
    /\ sock' = [sock EXCEPT ![s].uid = u]
    /\ IF Playing(u)
       THEN /\ player' = [player EXCEPT ![u].session = s]
            /\ UNCHANGED loads
       ELSE OnLogin(u, [player[u] EXCEPT !.session = s])
    /\ UNCHANGED status

TakeOver(s, u) ==
    /\ CanLogin(s)
    /\ ~LoggedIn(s)
    /\ Exists(u)
    /\ sock' = [x \in Sock |->
                  IF x = s THEN [sock[s] EXCEPT !.uid = u]
                  ELSE IF x = player[u].session THEN Closed ELSE sock[x]]
    /\ IF Playing(u)
       THEN /\ player' = [player EXCEPT ![u].session = s]
            /\ UNCHANGED loads
       ELSE OnLogin(u, [player[u] EXCEPT !.session = s])
    /\ UNCHANGED status

FirstLogin(s, u) ==
    /\ CanLogin(s)
    /\ ~LoggedIn(s)
    /\ ~Exists(u)
    /\ sock' = [sock EXCEPT ![s].uid = u]
    /\ OnLogin(u, [Nobody EXCEPT !.session = s])
    /\ UNCHANGED status

-----------------------------------------------------------------------------
(* Replies of the database threads.                                        *)

LoadOver(parts) == parts = Part

(* A reply is matched to a player object by its uid alone, and counts only *)
(* while that object is loading.  A missing account row is no reply.       *)
AcceptsAnyState(t, u) ==       \* fault: a late reply of a repeated login counts
    Exists(u) /\ (t = "account" => u \notin NoRow)

Accepts(t, u) == Loading(u) /\ (t = "account" => u \notin NoRow)

(* What the row held replaces what the object holds, a change included.    *)
(* The last part makes the player play: CPlayer::OnGetAllData, which also  *)
(* finds in redis whether the player is still in a game server.  The load  *)
(* clock is not read again and goes back to 0.                             *)
Received(t, u, away) ==
    LET parts == player[u].loaded \cup {t}
        rest == player[u].changed \ {t}
    IN  IF LoadOver(parts)
        THEN [player[u] EXCEPT !.loaded = parts, !.changed = rest, !.state = "playing",
                               !.loadAge = 0, !.away = away]
        ELSE [player[u] EXCEPT !.loaded = parts, !.changed = rest]

OnLoadEvent(t) ==
    /\ loads[t] # <<>>
    /\ LET u == Head(loads[t])
       IN  IF Accepts(t, u)
           THEN \E away \in BOOLEAN : player' = [player EXCEPT ![u] = Received(t, u, away)]
           ELSE UNCHANGED player
    /\ loads' = [loads EXCEPT ![t] = Tail(@)]
    /\ UNCHANGED <<sock, status>>

(* A query that fails while the database is connected is dropped.          *)
QueryFails(t) ==
    /\ loads[t] # <<>>
    /\ loads' = [loads EXCEPT ![t] = Tail(@)]
    /\ UNCHANGED <<sock, player, status>>

-----------------------------------------------------------------------------
(* Losing a connection.                                                    *)

(* ClientHandle::DestroyObj: the player stays, without a session.          *)
Detached(s) ==
    [u \in Uid |-> IF u = sock[s].uid /\ player[u].session = s
                   THEN [player[u] EXCEPT !.session = NoSock] ELSE player[u]]

DestroyObj(s) ==
    /\ sock' = [sock EXCEPT ![s] = Closed]
    /\ player' = Detached(s)

CloseClient(s) ==
    /\ sock[s].open /\ sock[s].alive
    /\ DestroyObj(s)
    /\ UNCHANGED <<loads, status>>

(* The peer is gone and no packet says so, until the heartbeat timer.      *)
ClientVanishes(s) ==
    /\ sock[s].open /\ sock[s].alive
    /\ sock' = [sock EXCEPT ![s].alive = FALSE]
    /\ UNCHANGED <<player, loads, status>>

HeartTimeout(s) ==
    /\ sock[s].open /\ ~sock[s].alive
    /\ DestroyObj(s)
    /\ UNCHANGED <<loads, status>>

PhpKill(u) ==
    /\ Exists(u)
    /\ LET s == player[u].session
       IN  /\ sock' = IF s = NoSock THEN sock ELSE [sock EXCEPT ![s] = Closed]
           /\ player' = [player EXCEPT ![u].session = NoSock, ![u].kicked = TRUE]
    /\ UNCHANGED <<loads, status>>

-----------------------------------------------------------------------------
(* What is done to a player that is there, and what one that plays does.   *)

(* Clients and game servers act on a player that plays, except that a gift *)
(* to the player, a change PHP makes and the change of a running game that *)
(* msg_update_lobby_change_account_data brings reach the account of any    *)
(* object there is, one that is loading included.                          *)
CanModify(u, p) == p \in Followed /\ (Playing(u) \/ (Loading(u) /\ p = "account"))

ModifyData(u, p) ==
    /\ CanModify(u, p)
    /\ player' = [player EXCEPT ![u].changed = @ \cup {p}]
    /\ UNCHANGED <<sock, loads, status>>

EnterGame(u) ==
    /\ Playing(u) /\ player[u].session # NoSock /\ ~player[u].away
    /\ player' = [player EXCEPT ![u].away = TRUE]
    /\ UNCHANGED <<sock, loads, status>>

LeaveGame(u) ==
    /\ Exists(u) /\ player[u].away
    /\ player' = [player EXCEPT ![u].away = FALSE]
    /\ UNCHANGED <<sock, loads, status>>

-----------------------------------------------------------------------------
(* Timers and maintenance.                                                 *)

OlderWithoutEnd(a, limit) == IF a <= limit + 1 THEN a + 1 ELSE a   \* fault: off by one

Older(a, limit) == IF a <= limit THEN a + 1 ELSE a

Aged(u) ==
    [player[u] EXCEPT
        !.loadAge = IF Loading(u) THEN Older(@, LoadTimeout) ELSE @,
        !.off = IF @ = Unset THEN @ ELSE Older(@, OfflineTime)]

ClockTick ==
    /\ player' = [u \in Uid |-> Aged(u)]
    /\ UNCHANGED <<sock, loads, status>>

(* CPlayer::OnTimeTick notices a lost or a regained session, but only of a *)
(* player that plays.                                                      *)
Noticed(u) ==
    IF ~Playing(u) THEN player[u]
    ELSE [player[u] EXCEPT !.off =
            IF player[u].session # NoSock THEN Unset ELSE IF @ = Unset THEN 0 ELSE @]

FlushTick ==
    /\ player' = [u \in Uid |-> Noticed(u)]
    /\ UNCHANGED <<sock, loads, status>>

OfflineByClockAlone(u) ==      \* fault: the mark of an earlier disconnection counts
    player[u].off # Unset /\ player[u].off > OfflineTime

OfflineTooLong(u) ==
    player[u].session = NoSock /\ (player[u].off # Unset => player[u].off > OfflineTime)

NeverRecoversLoading(u) ==     \* fault: no timeout of the loading
    /\ Playing(u) /\ ~player[u].away
    /\ status = "repair" \/ OfflineTooLong(u) \/ player[u].kicked

RecoversOnlyOffline(u) ==      \* fault: maintenance waits for clients to leave
    \/ Loading(u) /\ player[u].loadAge > LoadTimeout
    \/ Playing(u) /\ ~player[u].away /\ (OfflineTooLong(u) \/ player[u].kicked)

NeedRecover(u) ==
    \/ Loading(u) /\ player[u].loadAge > LoadTimeout
    \/ /\ Playing(u) /\ ~player[u].away
       /\ \/ status = "repair"
          \/ OfflineTooLong(u)
          \/ player[u].kicked

(* Deleting the object destroys the socket it still has.                   *)
CheckRecoverPlayer ==
    /\ \E u \in Uid : NeedRecover(u)
    /\ sock' = [s \in Sock |->
                  IF \E u \in Uid : NeedRecover(u) /\ player[u].session = s
                  THEN Closed ELSE sock[s]]
    /\ player' = [u \in Uid |-> IF NeedRecover(u) THEN Nobody ELSE player[u]]
    /\ UNCHANGED <<loads, status>>

CheckRepairServer ==
    /\ status = "running"
    /\ status' = "repair"
    /\ UNCHANGED <<sock, player, loads>>

-----------------------------------------------------------------------------
Next ==
    \/ \E s \in Sock :
         \/ Connect(s) \/ LoginAgain(s)
         \/ CloseClient(s) \/ ClientVanishes(s) \/ HeartTimeout(s)
         \/ \E u \in Uid : TakeOver(s, u) \/ FirstLogin(s, u)
    \/ \E t \in Part : OnLoadEvent(t) \/ QueryFails(t)
    \/ \E u \in Uid :
         \/ PhpKill(u) \/ EnterGame(u) \/ LeaveGame(u)
         \/ \E p \in Part : ModifyData(u, p)
    \/ ClockTick \/ FlushTick \/ CheckRecoverPlayer \/ CheckRepairServer

Spec == Init /\ [][Next]_vars

(* The process's own steps: its timers, the heartbeat timer of each socket *)
(* and the loop that hands out database replies.  Clients, PHP, the game   *)
(* servers and maintenance owe nothing.                                    *)
Fairness ==
    /\ WF_vars(ClockTick) /\ WF_vars(FlushTick) /\ WF_vars(CheckRecoverPlayer)
    /\ \A s \in Sock : WF_vars(HeartTimeout(s))
    /\ \A t \in Part : WF_vars(OnLoadEvent(t))

FairSpec == Spec /\ Fairness

-----------------------------------------------------------------------------
(* Properties.                                                             *)

(* A player's session is an open socket that carries the player's uid, and *)
(* a socket that carries a uid is the session of that player: through      *)
(* takeovers, kicks, deletions and the reuse of handles no two connections *)
(* ever act for one player, and none acts for a player that is gone        *)
(* (msg_client_handle.cpp handle_msg_login, ClientHandle::DestroyObj).     *)
SessionsOwned ==
    /\ \A u \in Uid : player[u].session # NoSock =>
          /\ Exists(u)
          /\ sock[player[u].session].open
          /\ sock[player[u].session].uid = u
    /\ \A s \in Sock : sock[s].uid # NoUid => player[sock[s].uid].session = s

(* Of an object that does not play only the account is modified.           *)
LoadingUnchanged ==
    \A u \in Uid : /\ Loading(u) => player[u].changed \subseteq {"account"}
                   /\ ~Exists(u) => player[u].changed = {}

(* What the lobby has changed in memory stays until the player object is   *)
(* deleted: no late reply puts it back to what the database held,          *)
(* whichever of the repeated logins asked for it.  The one exception is    *)
(* the account of an object that is still loading, which other players,    *)
(* PHP and game servers change without asking for its state                *)
(* (msg_client_handle.cpp handle_msg_give_safebox): the account's reply    *)
(* overwrites that change.                                                 *)
ChangesKept ==
    [][\A u \in Uid, p \in Part :
         p \in player[u].changed =>
            \/ p \in player'[u].changed
            \/ ~Exists(u)'
            \/ Loading(u) /\ p = "account"]_vars

(* Outside maintenance the recovery timer deletes no player that plays on  *)
(* an open connection, however old its last disconnection is; only a kick  *)
(* does.                                                                   *)
ConnectedKept ==
    [][\A u \in Uid :
         Playing(u) /\ player[u].session # NoSock /\ ~player[u].kicked /\ status = "running"
            => Exists(u)']_vars

HasClient(u) == player[u].session # NoSock /\ sock[player[u].session].alive

(* A player whose client is gone, with or without the server having been   *)
(* told, is deleted in the end unless a client comes back or a game server *)
(* holds the player: whatever state the loading of its data is in.         *)
AbandonedReclaimed ==
    \A u \in Uid : (Exists(u) /\ ~HasClient(u)) ~> (~Exists(u) \/ HasClient(u) \/ player[u].away)

(* Maintenance empties the lobby: in the end every player is gone or in a  *)
(* game, although clients stay connected and loads are under way.          *)
RepairDrains ==
    \A u \in Uid : (status = "repair") ~> (~Exists(u) \/ player[u].away)
=============================================================================
