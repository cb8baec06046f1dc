------------------------------ MODULE GameRoom ------------------------------
(***************************************************************************)
(* One matching room of a game server: a common room (roomtype 0) paid in  *)
(* coin with marry = 1 and no robots, as the land (dou dizhu) rooms are    *)
(* configured.  Players enter the room, wait in its matching queue, are    *)
(* put at tables, play, and are moved, recovered or expelled.              *)
(*                                                                         *)
(* The server runs one thread: an action is one message handler or one     *)
(* timer callback run to its end.  The only exception is MarryTable, whose *)
(* loop takes one step per queued player; while it runs (`marry.on`) no    *)
(* other action is enabled, as nothing else runs in the code.              *)
(*                                                                         *)
(* The handlers are compositions of the room's and the table's member      *)
(* functions, so those are operators from a state `w` of the room to the   *)
(* state they leave behind.                                                *)
(***************************************************************************)
EXTENDS Integers, FiniteSets

CONSTANTS
    Player,         \* the CGamePlayer objects, by uid
    Ip,             \* the address each player connects from
    NoIp,           \* the address 0
    Chairs,         \* GAME_LAND_PLAYER
    EnterMin,       \* the room's limits on a player's coin
    EnterMax,
    MaxScore,       \* bound: coin is counted 0 .. MaxScore
    TableNum,       \* m_roomCfg.tableNum, the tables made at the start
    MaxTables,      \* bound: tables a room makes
    IsAddBlockers,  \* the room parameter "isaddblockers"
    MayStop,        \* bound: whether the server may go into maintenance
    MayIdle         \* bound: whether a client may be silent for too long

ASSUME ChairsAssumption == Chairs \in Nat \ {0}
ASSUME TablesAssumption == MaxTables \in Nat /\ TableNum \in 0 .. MaxTables
ASSUME PlayerAssumption == IsFiniteSet(Player)
ASSUME FlagAssumption == {IsAddBlockers, MayStop, MayIdle} \subseteq BOOLEAN
ASSUME LimitAssumption == EnterMin \in Nat /\ EnterMax \in Nat /\ MaxScore \in Nat

Table == 1 .. MaxTables
NoTable == 0         \* m_pGameTable == NULL, and the excludeID 0
NotQueued == -1      \* the player has no entry in m_marryPlayers
Score == 0 .. MaxScore

VARIABLES
    room,       \* the room, its tables and the players' pointers into it
    netState,   \* m_netState of each player; "none" without an object
    score,      \* what the room's limits compare: the player's coin
    blocks,     \* m_blocks, and what redis keeps of it between visits
    marry,      \* the run of MarryTable: its local pTable
    repair      \* CApplication::GetStatus() == emSERVER_STATE_REPAIR

vars == <<room, netState, score, blocks, marry, repair>>

-----------------------------------------------------------------------------
Room ==
    [members : SUBSET Player,                        \* m_pGameRoom == this
     playerNum : Nat,                                \* m_playerNum
     queue : [Player -> Table \cup {NoTable, NotQueued}],  \* m_marryPlayers
     table : [Player -> Table \cup {NoTable}],       \* m_pGameTable
     seated : [Table -> SUBSET Player],              \* m_vecPlayers
     ready : SUBSET Player,                          \* readyState == 1
     playing : SUBSET Table,                         \* state CALL or PLAY
     made : Table \cup {0}]                          \* m_roomIndex

(* A player's network state: "idle" and "off" are both m_netState == 0, by *)
(* the server's own clock and by the lobby's word that the client is gone. *)
NetState == {"none", "on", "idle", "off"}

TypeOK ==
    /\ room \in Room
    /\ netState \in [Player -> NetState]
    /\ score \in [Player -> Score]
    /\ blocks \in [Player -> SUBSET Player]
    /\ marry \in [on : BOOLEAN, fresh : Table \cup {NoTable}]
    /\ repair \in BOOLEAN

Init ==
    /\ room = [members |-> {}, playerNum |-> 0,
               queue |-> [p \in Player |-> NotQueued],
               table |-> [p \in Player |-> NoTable],
               seated |-> [t \in Table |-> {}],
               ready |-> {}, playing |-> {}, made |-> TableNum]
    /\ netState = [p \in Player |-> "none"]
    /\ score = [p \in Player |-> 0]
    /\ blocks = [p \in Player |-> {}]
    /\ marry = [on |-> FALSE, fresh |-> NoTable]
    /\ repair = FALSE

Here(p) == netState[p] # "none"

(* What a client sends reaches the server while the lobby has not reported *)
(* the client gone.                                                        *)
Sends(p) == ~marry.on /\ netState[p] \in {"on", "idle"}

-----------------------------------------------------------------------------
(* Who may share a table.  A player's m_blockIPs are the addresses of the  *)
(* players of m_blocks, but for its own and for the address 0.             *)
Queued(w, p) == w.queue[p] # NotQueued
Queue(w) == {p \in Player : Queued(w, p)}

BlockIps(p) == {Ip[q] : q \in blocks[p]} \ {Ip[p], NoIp}

Blocked(p, q) ==
    /\ p # q
    /\ \/ q \in blocks[p]
       \/ p \in blocks[q]
       \/ Ip[q] \in BlockIps(p)
       \/ Ip[p] \in BlockIps(q)

IsExistBlock(w, p, t) == \E q \in w.seated[t] : Blocked(p, q)
IsExistIP(w, p, t) == Ip[p] # NoIp /\ \E q \in w.seated[t] : Ip[q] = Ip[p]
IsFullTable(w, t) == Cardinality(w.seated[t]) >= Chairs

CanEnterTableAnyIP(w, p, t) ==   \* fault: no IsExistIP
    /\ ~IsExistBlock(w, p, t)
    /\ w.table[p] = NoTable
    /\ ~IsFullTable(w, t)
    /\ t \notin w.playing
    /\ score[p] >= EnterMin

CanEnterTable(w, p, t) ==
    /\ ~IsExistIP(w, p, t)
    /\ ~IsExistBlock(w, p, t)
    /\ w.table[p] = NoTable
    /\ ~IsFullTable(w, t)
    /\ t \notin w.playing
    /\ score[p] >= EnterMin

AtTable(w, p) == w.table[p] # NoTable
CanLeaveTable(w, p) == AtTable(w, p) => w.table[p] \notin w.playing
CanEnterRoom(p) == score[p] \in EnterMin .. EnterMax

-----------------------------------------------------------------------------
(* The member functions the handlers are made of.                          *)
LeaveTable(w, p) ==
    IF AtTable(w, p)
    THEN [w EXCEPT !.seated[w.table[p]] = @ \ {p},
                   !.ready = @ \ {p},
                   !.table[p] = NoTable]
    ELSE w

JoinMarry(w, p, exclude) ==
    IF Queued(w, p) THEN w ELSE [w EXCEPT !.queue[p] = exclude]

LeaveMarry(w, p) == [w EXCEPT !.queue[p] = NotQueued]

EnterRoom(w, p) ==
    IF p \in w.members
    THEN w
    ELSE [w EXCEPT !.members = @ \cup {p}, !.playerNum = @ + 1]

LeaveRoomAnybody(w, p) ==   \* fault: no test of the player's room
    IF CanLeaveTable(w, p)
    THEN [LeaveMarry(LeaveTable(w, p), p) EXCEPT
             !.members = @ \ {p}, !.playerNum = @ - 1]
    ELSE w

LeaveRoomStaysQueued(w, p) ==   \* fault: no LeaveMarry
    IF p \in w.members /\ CanLeaveTable(w, p)
    THEN [LeaveTable(w, p) EXCEPT !.members = @ \ {p}, !.playerNum = @ - 1]
    ELSE w

LeaveRoom(w, p) ==
    IF p \in w.members /\ CanLeaveTable(w, p)
    THEN [LeaveMarry(LeaveTable(w, p), p) EXCEPT
             !.members = @ \ {p}, !.playerNum = @ - 1]
    ELSE w

FastJoinTable(w, p) ==
    IF p \in w.members /\ CanLeaveTable(w, p)
    THEN JoinMarry(LeaveTable(w, p), p, w.table[p])
    ELSE w

(* A ready player must be within the limits and, in a coin room, blocked   *)
(* by nobody at the table: else it leaves the room, or is matched anew.    *)
PlayerReadyDespiteBlock(w, p) ==   \* fault: no IsExistBlock
    CASE w.table[p] \in w.playing -> w
      [] w.table[p] \notin w.playing /\ ~CanEnterRoom(p)
           -> LeaveRoom(LeaveTable(w, p), p)
      [] OTHER -> [w EXCEPT !.ready = @ \cup {p}]

PlayerReady(w, p) ==
    CASE w.table[p] \in w.playing -> w
      [] w.table[p] \notin w.playing /\ ~CanEnterRoom(p)
           -> LeaveRoom(LeaveTable(w, p), p)
      [] w.table[p] \notin w.playing /\ CanEnterRoom(p)
           /\ IsExistBlock(w, p, w.table[p])
           -> FastJoinTable(w, p)
      [] OTHER -> [w EXCEPT !.ready = @ \cup {p}]

(* Taking a free chair: the table sets the player's auto-ready flag when   *)
(* it joins, so it is made ready at once.                                  *)
TakeChair(w, p, t) ==
    PlayerReady([w EXCEPT !.seated[t] = @ \cup {p}, !.table[p] = t], p)

OnLoginOut(w, p) == LeaveRoom(LeaveTable(w, p), p)

-----------------------------------------------------------------------------
(* Messages of the lobby about a player, and the player's own.             *)
EnterSvr(p) ==
    /\ ~marry.on /\ ~Here(p)
    /\ netState' = [netState EXCEPT ![p] = "on"]
    /\ \E s \in Score : score' = [score EXCEPT ![p] = s]
    /\ UNCHANGED <<room, blocks, marry, repair>>

Reconnect(p) ==
    /\ ~marry.on /\ Here(p)
    /\ netState' = [netState EXCEPT ![p] = "on"]
    /\ UNCHANGED <<room, score, blocks, marry, repair>>

(* A player that is gone leaves a table that is not playing, and its room. *)
SetNetStateOff(p, state) ==
    /\ netState' = [netState EXCEPT ![p] = state]
    /\ room' = IF AtTable(room, p) /\ CanLeaveTable(room, p)
               THEN LeaveRoom(LeaveTable(room, p), p)
               ELSE room
    /\ UNCHANGED <<score, blocks, marry, repair>>

ClientGone(p) == ~marry.on /\ Here(p) /\ SetNetStateOff(p, "off")

HeartTimeout(p) ==
    /\ MayIdle /\ ~marry.on /\ netState[p] = "on"
    /\ CanLeaveTable(room, p)
    /\ SetNetStateOff(p, "idle")

(* The object is deleted: nothing of the room may still point to it.       *)
Delete(p) ==
    /\ room' = OnLoginOut(room, p)
    /\ netState' = [netState EXCEPT ![p] = "none"]
    /\ score' = [score EXCEPT ![p] = 0]
    /\ UNCHANGED <<blocks, marry, repair>>

CanBackLobby(p) == CanLeaveTable(room, p)

BackLobby(p) == Sends(p) /\ CanBackLobby(p) /\ Delete(p)

RecoversPlaying(p) == netState[p] # "on" \/ repair   \* fault: no CanBackLobby

RecoversOutsideRoom(p) ==   \* fault: spares the players of the room
    (netState[p] # "on" \/ repair) /\ p \notin room.members

NeedRecover(p) == (netState[p] # "on" \/ repair) /\ CanBackLobby(p)

CheckRecoverPlayer(p) == ~marry.on /\ Here(p) /\ NeedRecover(p) /\ Delete(p)

(* Coin changed by the lobby: a gift, the shop, the safe box.              *)
AccountChanges(p) ==
    /\ ~marry.on /\ Here(p)
    /\ \E s \in Score \ {score[p]} : score' = [score EXCEPT ![p] = s]
    /\ UNCHANGED <<room, netState, blocks, marry, repair>>

NotifyStopServer ==
    /\ MayStop /\ ~marry.on /\ ~repair
    /\ repair' = TRUE
    /\ UNCHANGED <<room, netState, score, blocks, marry>>

RoomRequest(p, w) ==
    /\ Sends(p)
    /\ room' = w
    /\ UNCHANGED <<netState, score, blocks, marry, repair>>

EnterThisRoom(p) ==
    /\ p \notin room.members
    /\ CanEnterRoom(p)
    /\ RoomRequest(p, EnterRoom(room, p))

(* A request to enter another room leaves this one first.                  *)
EnterOtherRoom(p) ==
    /\ CanBackLobby(p)
    /\ RoomRequest(p, LeaveRoom(room, p))

(* Quick start: leave the room one is in, then enter one and be matched.   *)
FastJoinRoom(p) ==
    /\ CanLeaveTable(room, p)
    /\ LET w == LeaveRoom(room, p)
       IN  RoomRequest(p, IF CanEnterRoom(p)
                          THEN FastJoinTable(EnterRoom(w, p), p)
                          ELSE w)

(* Change the table, or be matched for the first time.                     *)
ChangeTable(p) ==
    /\ p \in room.members
    /\ RoomRequest(p, FastJoinTable(room, p))

(* A table asked for by its id: in a matching room the id only tells "stay *)
(* where I am" from "match me".                                            *)
EnterTable(p) ==
    /\ p \in room.members
    /\ CanLeaveTable(room, p)
    /\ RoomRequest(p, JoinMarry(LeaveTable(room, p), p, NoTable))

LeaveTableReq(p) ==
    /\ AtTable(room, p)
    /\ CanLeaveTable(room, p)
    /\ RoomRequest(p, LeaveRoom(LeaveTable(room, p), p))

TableReady(p) ==
    /\ ~repair
    /\ AtTable(room, p)
    /\ RoomRequest(p, PlayerReady(room, p))

-----------------------------------------------------------------------------
(* A tick of a table that is not playing: players ready for too long are   *)
(* queued again, away from this table, then the game starts if everybody   *)
(* is ready.  Which of the ready players are late is left open.            *)
CheckReadyTimeOut(w, t, late) ==
    [w EXCEPT
        !.seated[t] = @ \ late,
        !.ready = @ \ late,
        !.table = [p \in Player |-> IF p \in late THEN NoTable ELSE @[p]],
        !.queue = [p \in Player |->
                     IF p \in late /\ ~Queued(w, p) THEN t ELSE @[p]]]

IsAllReady(w, t) ==
    Cardinality(w.seated[t]) = Chairs /\ w.seated[t] \subseteq w.ready

OnGameStart(w, t) == [w EXCEPT !.playing = @ \cup {t}]

TableTick(t) ==
    /\ ~marry.on
    /\ t \in 1 .. room.made /\ t \notin room.playing
    /\ \E late \in SUBSET (room.seated[t] \cap room.ready) :
         LET w == CheckReadyTimeOut(room, t, late)
         IN  room' = IF IsAllReady(w, t) THEN OnGameStart(w, t) ELSE w
    /\ UNCHANGED <<netState, score, blocks, marry, repair>>

ResetPlayerReady(w, t) == [w EXCEPT !.ready = @ \ w.seated[t]]

(* Nobody bids: the cards are dealt again.                                 *)
ReGameStart(t) ==
    /\ ~marry.on /\ t \in room.playing
    /\ room' = OnGameStart(ResetPlayerReady(room, t), t)
    /\ UNCHANGED <<netState, score, blocks, marry, repair>>

AddBlockers(seats) ==
    [p \in Player |-> IF IsAddBlockers /\ p \in seats
                      THEN seats \ {p} ELSE blocks[p]]

(* The players the game has made too rich leave the table and the room.    *)
RichLeaveUncounted(w, t, rich) ==   \* fault: m_playerNum is forgotten
    [w EXCEPT
        !.seated[t] = @ \ rich,
        !.table = [p \in Player |-> IF p \in rich THEN NoTable ELSE @[p]],
        !.queue = [p \in Player |-> IF p \in rich THEN NotQueued ELSE @[p]],
        !.members = @ \ rich]

CheckPlayerScoreManyLeave(w, t, rich) ==
    [w EXCEPT
        !.seated[t] = @ \ rich,
        !.table = [p \in Player |-> IF p \in rich THEN NoTable ELSE @[p]],
        !.queue = [p \in Player |-> IF p \in rich THEN NotQueued ELSE @[p]],
        !.members = @ \ rich,
        !.playerNum = @ - Cardinality(rich)]

OnGameEnd(t) ==
    /\ ~marry.on /\ t \in room.playing
    /\ \E s \in [room.seated[t] -> Score] :
         LET ended == [ResetPlayerReady(room, t) EXCEPT !.playing = @ \ {t}]
             rich == {p \in room.seated[t] : s[p] >= EnterMax}
         IN  /\ score' = [p \in Player |->
                            IF p \in room.seated[t] THEN s[p] ELSE score[p]]
             /\ room' = CheckPlayerScoreManyLeave(ended, t, rich)
    /\ blocks' = AddBlockers(room.seated[t])
    /\ UNCHANGED <<netState, marry, repair>>

-----------------------------------------------------------------------------
(* Once a second MarryTable empties the queue.  A player is put at the     *)
(* best table it may join, its old one excluded; without one, at the table *)
(* made in this run, or at a new one when there is none or it is full.     *)
(* One that may not even sit there leaves the room.                        *)
ReadyNum(w, t) == Cardinality(w.seated[t] \cap w.ready)
PlayerNum(w, t) == Cardinality(w.seated[t])

CompareTableMarry(w, t, u) ==
    \/ ReadyNum(w, t) > ReadyNum(w, u)
    \/ ReadyNum(w, t) = ReadyNum(w, u) /\ PlayerNum(w, t) > PlayerNum(w, u)
    \/ /\ ReadyNum(w, t) = ReadyNum(w, u)
       /\ PlayerNum(w, t) = PlayerNum(w, u)
       /\ t < u

ReadyTablesOccupied(w, p) ==   \* fault: passes by empty tables
    {t \in 1 .. w.made : /\ w.seated[t] # {}
                         /\ t # w.queue[p] /\ CanEnterTable(w, p, t)}

ReadyTables(w, p) ==
    {t \in 1 .. w.made : t # w.queue[p] /\ CanEnterTable(w, p, t)}

BeginMarry ==
    /\ ~marry.on
    /\ Queue(room) # {}
    /\ room.made + Cardinality(Queue(room)) <= MaxTables   \* bound
    /\ marry' = [on |-> TRUE, fresh |-> NoTable]
    /\ UNCHANGED <<room, netState, score, blocks, repair>>

JoinNoFullTable(p) ==
    /\ \E t \in ReadyTables(room, p) :
         /\ \A u \in ReadyTables(room, p) \ {t} : CompareTableMarry(room, t, u)
         /\ room' = LeaveMarry(TakeChair(room, p, t), p)
    /\ UNCHANGED marry

NeedTable == marry.fresh # NoTable => IsFullTable(room, marry.fresh)

MallocTable(w) == [w EXCEPT !.made = @ + 1]

SitAlone(w, p, t) ==
    room' = IF CanEnterTable(w, p, t)
            THEN LeaveMarry(TakeChair(w, p, t), p)
            ELSE LeaveRoom(w, p)

JoinFreshTable(p) ==
    /\ ReadyTables(room, p) = {}
    /\ \/ /\ NeedTable
          /\ room.made < MaxTables
          /\ SitAlone(MallocTable(room), p, room.made + 1)
          /\ marry' = [marry EXCEPT !.fresh = room.made + 1]
       \/ /\ ~NeedTable
          /\ SitAlone(room, p, marry.fresh)
          /\ UNCHANGED marry

MarryNext(p) ==
    /\ marry.on /\ Queued(room, p)
    /\ JoinNoFullTable(p) \/ JoinFreshTable(p)
    /\ UNCHANGED <<netState, score, blocks, repair>>

EndMarry ==
    /\ marry.on
    /\ Queue(room) = {}
    /\ marry' = [on |-> FALSE, fresh |-> NoTable]
    /\ UNCHANGED <<room, netState, score, blocks, repair>>

MarryTable == BeginMarry \/ (\E p \in Player : MarryNext(p)) \/ EndMarry

-----------------------------------------------------------------------------
Next ==
    \/ \E p \in Player :
         \/ EnterSvr(p) \/ Reconnect(p) \/ ClientGone(p) \/ HeartTimeout(p)
         \/ BackLobby(p) \/ CheckRecoverPlayer(p) \/ AccountChanges(p)
         \/ EnterThisRoom(p) \/ EnterOtherRoom(p) \/ FastJoinRoom(p)
         \/ ChangeTable(p) \/ EnterTable(p) \/ LeaveTableReq(p) \/ TableReady(p)
    \/ \E t \in Table : TableTick(t) \/ ReGameStart(t) \/ OnGameEnd(t)
    \/ MarryTable
    \/ NotifyStopServer

Spec == Init /\ [][Next]_vars

(* The server's timers keep firing, and every game ends: each turn has a   *)
(* timeout that bids or plays for the player.  Strong fairness, because    *)
(* the two are disabled while MarryTable runs, which in the code takes no  *)
(* time, and players may keep it running again and again.                  *)
Fairness ==
    /\ WF_vars(MarryTable)
    /\ \A p \in Player : SF_vars(CheckRecoverPlayer(p))
    /\ \A t \in Table : SF_vars(OnGameEnd(t))

FairSpec == Spec /\ Fairness

-----------------------------------------------------------------------------
(* Nothing of the room dangles: the players' pointers and the tables'      *)
(* seats say the same; a seated or queued player is a member of the room,  *)
(* never both, and has an object on the server, whatever handlers ran      *)
(* between its entering and its deletion; the room's player counter, kept  *)
(* by increments and decrements, is the number of its members.             *)
Membership ==
    /\ \A p \in Player : \A t \in Table :
         p \in room.seated[t] <=> room.table[p] = t
    /\ \A p \in Player :
         /\ AtTable(room, p) => p \in room.members /\ ~Queued(room, p)
         /\ Queued(room, p) => p \in room.members
         /\ p \in room.members => Here(p)
         /\ p \in room.ready => AtTable(room, p)
    /\ room.playerNum = Cardinality(room.members)

(* Another table is made only while there are not enough for everybody to  *)
(* sit alone, one being excluded: empty tables are used again, whatever    *)
(* the order in which players are blocked, excluded and seated             *)
(* (JoinNoFullTable).  No system table is ever recovered, so this is what  *)
(* keeps a room small.  The one exception is a player whose coin has       *)
(* fallen below the room's limit while it was queued: MarryTable makes a   *)
(* table for it all the same, and then expels it.                          *)
Expelled(p) == Queued(room, p) /\ score[p] < EnterMin /\ p \notin room'.members

FewTables ==
    [][room'.made > room.made =>
          room'.made <= Cardinality(Player) + 1 \/ \E p \in Player : Expelled(p)]_vars

(* The room implements MatchMaking: a game starts with a full table of     *)
(* players none of whom blocks another or shares an address, though they   *)
(* sat down one by one while blockers, coin and readiness changed; nobody  *)
(* gets up during a game or is deleted in it.                              *)
Matches == INSTANCE MatchMaking WITH
    idle <- {p \in Player : Here(p) /\ room.table[p] \notin room.playing},
    games <- {room.seated[t] : t \in room.playing},
    avoids <- blocks

ImplementsMatchMaking == Matches!Spec

(* MarryTable's `while` over the queue ends: each round takes the player   *)
(* it looks at out of the queue, by seating it or by expelling it.         *)
MarryEnds == marry.on ~> ~marry.on

(* A player whose client is gone is recovered, though it may still be      *)
(* seated and play a whole game that was being matched.                    *)
OfflineRecovered ==
    \A p \in Player : netState[p] = "off" ~> netState[p] # "off"

=============================================================================
