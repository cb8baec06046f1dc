---------------------------- MODULE AccountSync ----------------------------
(***************************************************************************)
(* One column of one player's account, the coins or the coins in the safe  *)
(* box, in the four places that hold it: the database row, the lobby's     *)
(* player object, the game server's player object, and the messages and    *)
(* database requests between them.                                         *)
(*                                                                         *)
(* The lobby changes a player it holds in memory and queues the change as  *)
(* a relative UPDATE for the account thread, which executes its queue in   *)
(* order; an account the lobby does not hold, and a change by PHP, is      *)
(* updated in the database at once, past that queue.  A game server gets a *)
(* copy of the balance when the player enters, changes the copy and tells  *)
(* the lobby.  Both channels between the two servers are TCP streams.      *)
(***************************************************************************)
EXTENDS Sums, Sequences

CONSTANTS
    Columns,    \* the columns to look at, one in each behaviour
    Amounts,    \* the amounts one operation adds or takes
    Start,      \* the balance at the beginning
    MaxCoin,    \* bound: no balance grows beyond it
    MaxDebt,    \* bound: the account does not fall further below zero
    MaxQueue,   \* bound: requests at the account thread, replies included
    MaxToGame,  \* bound: messages on the way from the lobby to the game server
    MaxToLobby  \* bound: messages on the way back

ASSUME AmountAssumption ==
    /\ Columns \subseteq {"coin", "safecoin"}
    /\ Amounts \subseteq Int
    /\ {Start, MaxCoin, MaxDebt, MaxQueue, MaxToGame, MaxToLobby} \subseteq Nat

VARIABLES
    column,   \* which column it is; never changes
    db,       \* the coin column of the player's account row
    queue,    \* requests waiting at the account thread (CDBTask::m_QueueReq)
    replies,  \* balances read for the lobby (CDBTask::m_QueueRep)
    lobby,    \* the lobby's player object
    game,     \* the game server's player object
    redis,    \* redis says the player is in the game server
    toGame,   \* messages from the lobby to the game server
    toLobby,  \* messages from the game server to the lobby
    raced     \* history: something changed the account around this login's load

vars == <<column, db, queue, replies, lobby, game, redis, toGame, toLobby, raced>>
account == <<db, queue, replies, raced>>
channels == <<toGame, toLobby>>

-----------------------------------------------------------------------------
(* A relative change; "load" reads the balance for the lobby.              *)
Request == [kind : {"delta"}, amount : Int] \cup [kind : {"load"}]
Delta(v) == [kind |-> "delta", amount |-> v]
Load == [kind |-> "load"]

(* "got": the account row has arrived and other parts have not.            *)
Gone == [state |-> "none", coin |-> 0, away |-> FALSE]
Lobby == [state : {"load", "got", "play"}, coin : Int, away : BOOLEAN] \cup {Gone}

(* "owed": the player has gone before a round it has a part in was settled. *)
(* "locked": what an application for the bank has taken off the copy.      *)
Game == [here : {TRUE}, coin : Int, locked : Nat, owed : {FALSE}]
          \cup [here : {FALSE}, coin : {0}, locked : {0}, owed : BOOLEAN]

Here(coin, locked) == [here |-> TRUE, coin |-> coin, locked |-> locked, owed |-> FALSE]
Away(owed) == [here |-> FALSE, coin |-> 0, locked |-> 0, owed |-> owed]

ToGame == [kind : {"enter", "update"}, amount : Int]
ToLobby == [kind : {"change", "leave"}, amount : Int]

TypeOK ==
    /\ column \in Columns
    /\ db \in Int
    /\ queue \in Seq(Request)
    /\ replies \in Seq(Int)
    /\ lobby \in Lobby
    /\ game \in Game
    /\ redis \in BOOLEAN
    /\ toGame \in Seq(ToGame)
    /\ toLobby \in Seq(ToLobby)
    /\ raced \in BOOLEAN

Init ==
    /\ column \in Columns
    /\ db = Start
    /\ queue = <<>>
    /\ replies = <<>>
    /\ lobby = Gone
    /\ game = Away(FALSE)
    /\ redis = FALSE
    /\ toGame = <<>>
    /\ toLobby = <<>>
    /\ raced = FALSE

-----------------------------------------------------------------------------
(* Changing a balance.                                                     *)

(* CPlayerBase::ChangeAccountValue stops at 0 and returns what it changed. *)
Clamped(coin, v) == IF coin + v < 0 THEN -coin ELSE v

(* CPlayerBase::CanChangeAccountValue.                                     *)
CanChange(coin, v) == v >= 0 \/ coin + v >= 0

Loading == lobby.state \in {"load", "got"}
Exists == lobby.state # "none"

LoadOutstanding == replies # <<>> \/ \E i \in DOMAIN queue : queue[i] = Load

RoomInQueue == Len(queue) + Len(replies) < MaxQueue

AmountsOf(s, kind) == [i \in 1 .. Len(s) |-> IF s[i].kind = kind THEN s[i].amount ELSE 0]
Carried(s, kind) == NetSum(AmountsOf(s, kind))

(* What the account thread still has to add to the row, and what the row   *)
(* is going to be.                                                         *)
Pending == Carried(queue, "delta")
Account == db + Pending

(* The bound on what comes into the system, receipts on the way included.  *)
Receipts(s) == Sum(Received([i \in 1 .. Len(s) |-> s[i].amount]))

RoomFor(v) ==
    v > 0 => /\ \A coin \in {Account, lobby.coin} : coin + Receipts(toLobby) + v <= MaxCoin
             /\ game.coin + game.locked + Receipts(toGame) + v <= MaxCoin

SyncChangeQueuesAll(v) ==       \* fault: the amount is queued without the clamp
    LET c == Clamped(lobby.coin, v)
    IN  /\ RoomInQueue
        /\ Account + c >= -MaxDebt
        /\ lobby' = [lobby EXCEPT !.coin = @ + c]
        /\ queue' = Append(queue, Delta(v))
        /\ raced' = (raced \/ Loading)
        /\ UNCHANGED <<db, replies>>

(* CPlayer::SyncChangeAccountValue: the object changes, and what really    *)
(* changed goes to the account thread.                                     *)
SyncChange(v) ==
    LET c == Clamped(lobby.coin, v)
    IN  /\ RoomInQueue
        /\ Account + c >= -MaxDebt
        /\ lobby' = [lobby EXCEPT !.coin = @ + c]
        /\ queue' = Append(queue, Delta(c))
        /\ raced' = (raced \/ Loading)
        /\ UNCHANGED <<db, replies>>

(* CDBMysqlMgr::AtomChangeAccountValue: one UPDATE, executed at once, that *)
(* does nothing if the row would become negative.                          *)
AtomPasses(v) == db + v >= 0
AtomChange(v) ==
    /\ Account + v >= -MaxDebt
    /\ db' = IF AtomPasses(v) THEN db + v ELSE db
    /\ raced' = (raced \/ Loading \/ LoadOutstanding)
    /\ UNCHANGED <<queue, replies>>

-----------------------------------------------------------------------------
(* The account thread executes its queue in order.                         *)
OnProcessEvent ==
    /\ queue # <<>>
    /\ LET r == Head(queue)
       IN  \/ /\ r.kind = "delta"
              /\ db' = db + r.amount
              /\ UNCHANGED replies
           \/ /\ r.kind = "load"
              /\ replies' = Append(replies, db)
              /\ UNCHANGED db
    /\ queue' = Tail(queue)
    /\ UNCHANGED <<lobby, game, redis, channels, raced>>

-----------------------------------------------------------------------------
(* The lobby.                                                              *)

(* Logging in, also once more while the data is being loaded.              *)
Login ==
    /\ lobby.state # "play"
    /\ RoomInQueue
    /\ lobby' = IF Exists THEN lobby ELSE [Gone EXCEPT !.state = "load"]
    /\ queue' = Append(queue, Load)
    /\ raced' = IF Exists THEN raced ELSE LoadOutstanding
    /\ UNCHANGED <<db, replies, game, redis, channels>>

(* OnGetAllData: the player plays, in the game server redis names.         *)
Ready(coin) == [state |-> "play", coin |-> coin, away |-> redis]

OnLoadAccountDataEvent ==
    /\ replies # <<>>
    /\ \/ /\ Loading
          /\ \/ lobby' = [lobby EXCEPT !.state = "got", !.coin = Head(replies)]
             \/ lobby' = Ready(Head(replies))
       \/ /\ ~Loading
          /\ UNCHANGED lobby
    /\ replies' = Tail(replies)
    /\ UNCHANGED <<db, queue, game, redis, channels, raced>>

(* The last of the other parts arrives.                                    *)
OnLoadOtherDataEvent ==
    /\ lobby.state = "got"
    /\ lobby' = Ready(lobby.coin)
    /\ UNCHANGED <<account, game, redis, channels>>

(* The recovery timer deletes a player that is offline or never got its    *)
(* data; not one it knows to be in a game server.                          *)
CheckRecoverPlayer ==
    /\ Exists
    /\ ~lobby.away
    /\ lobby' = Gone
    /\ UNCHANGED <<account, game, redis, channels>>

(* What the player does in the lobby: the safe box, gifts to others,       *)
(* exchanges, prizes.                                                      *)
LobbyChange(v) ==
    /\ lobby.state = "play" /\ ~lobby.away
    /\ CanChange(lobby.coin, v) /\ RoomFor(v)
    /\ SyncChange(v)
    /\ UNCHANGED <<game, redis, channels>>

GiveSafeBoxToRow(v) ==          \* fault: a player in memory gets the gift past the object
    /\ column = "safecoin" /\ v > 0 /\ RoomFor(v)
    /\ AtomChange(v)
    /\ UNCHANGED <<lobby, game, redis, channels>>

(* handle_msg_give_safebox: a gift from another player reaches the object  *)
(* in whatever state it is, or the row; a game server is not told.         *)
GiveSafeBox(v) ==
    /\ column = "safecoin" /\ v > 0 /\ RoomFor(v)
    /\ \/ /\ Exists
          /\ SyncChange(v)
       \/ /\ ~Exists
          /\ AtomChange(v)
          /\ UNCHANGED lobby
    /\ UNCHANGED <<game, redis, channels>>

(* handle_php_update_accvalue_ingame: recharging and cashing out.  Coins   *)
(* of a player in a game server are not cashed out.                        *)
PhpChange(v) ==
    /\ RoomFor(v)
    /\ AtomChange(v)
    /\ IF Exists
       THEN /\ column = "coin" /\ v < 0 => ~lobby.away
            /\ CanChange(lobby.coin, v)
            /\ AtomPasses(v)
            /\ lobby' = [lobby EXCEPT !.coin = @ + Clamped(@, v)]
            /\ Len(toGame) < MaxToGame
            /\ toGame' = IF lobby.away THEN Append(toGame, [kind |-> "update", amount |-> v])
                         ELSE toGame
       ELSE UNCHANGED <<lobby, toGame>>
    /\ UNCHANGED <<game, redis, toLobby>>

EnterGameSvr ==
    /\ lobby.state = "play"
    /\ Len(toGame) < MaxToGame
    /\ lobby' = [lobby EXCEPT !.away = TRUE]
    /\ toGame' = Append(toGame, [kind |-> "enter", amount |-> lobby.coin])
    /\ UNCHANGED <<account, game, redis, toLobby>>

NotifyChangesAnyObject(v) ==    \* fault: no test that there is an object that plays
    /\ SyncChange(v)
    /\ UNCHANGED redis

(* handle_msg_notify_change_account_data and handle_msg_leave_svr.         *)
NotifyChangeAccountData(v) ==
    /\ IF lobby.state = "play"
       THEN SyncChange(v)
       ELSE AtomChange(v) /\ UNCHANGED lobby
    /\ UNCHANGED redis

LeaveSvr ==
    /\ lobby' = [lobby EXCEPT !.away = FALSE]
    /\ redis' = IF Exists THEN redis ELSE FALSE
    /\ UNCHANGED account

LobbyReceives ==
    /\ toLobby # <<>>
    /\ LET m == Head(toLobby)
       IN  \/ m.kind = "change" /\ NotifyChangeAccountData(m.amount)
           \/ m.kind = "leave" /\ LeaveSvr
    /\ toLobby' = Tail(toLobby)
    /\ UNCHANGED <<game, toGame>>

-----------------------------------------------------------------------------
(* The game server.                                                        *)

EnteredOver(coin) == Here(coin, 0)   \* fault: replaces the copy

(* handle_msg_enter_svr keeps a player it still has, and then ignores the  *)
(* balance that came.                                                      *)
Entered(coin) == IF game.here THEN game ELSE Here(coin, 0)

(* handle_msg_update_change_acc_data.                                      *)
Updated(v) == IF game.here THEN [game EXCEPT !.coin = @ + Clamped(@, v)] ELSE game

GameReceives ==
    /\ toGame # <<>>
    /\ LET m == Head(toGame)
       IN  \/ m.kind = "enter" /\ game' = Entered(m.amount) /\ redis' = TRUE
           \/ m.kind = "update" /\ game' = Updated(m.amount) /\ UNCHANGED redis
    /\ toGame' = Tail(toGame)
    /\ UNCHANGED <<account, lobby, toLobby>>

Change(v) == [kind |-> "change", amount |-> v]

(* CGameTable::ChangeScoreValueByUID: a settlement of a player that is     *)
(* here changes the copy; one of a player that has gone is passed on.      *)
ChangeScoreValueByUID(v) ==
    /\ column = "coin"
    /\ Len(toLobby) < MaxToLobby /\ RoomFor(v)
    /\ \/ /\ game.here
          /\ game' = [game EXCEPT !.coin = @ + Clamped(@, v)]
          /\ toLobby' = Append(toLobby, Change(Clamped(game.coin, v)))
       \/ /\ game.owed
          /\ game' = [game EXCEPT !.owed = FALSE]
          /\ toLobby' = Append(toLobby, Change(v))
    /\ UNCHANGED <<account, lobby, redis, toGame>>

(* CPlayerBase::TakeSafeBox, or another purchase, in the game server.      *)
GameChange(v) ==
    /\ game.here
    /\ Len(toLobby) < MaxToLobby /\ RoomFor(v)
    /\ CanChange(game.coin, v)
    /\ game' = [game EXCEPT !.coin = @ + v]
    /\ toLobby' = Append(toLobby, Change(v))
    /\ UNCHANGED <<account, lobby, redis, toGame>>

(* Applying for the bank takes the score off the copy and the lobby is not *)
(* told; it is given back when the player leaves the list of applicants.   *)
LockApplyScore(v) ==
    /\ column = "coin"
    /\ game.here /\ game.locked = 0
    /\ 0 < v /\ v <= game.coin
    /\ game' = Here(game.coin - v, v)
    /\ UNCHANGED <<account, lobby, redis, channels>>

UnLockApplyScore ==
    /\ game.here /\ game.locked > 0
    /\ game' = Here(game.coin + game.locked, 0)
    /\ UNCHANGED <<account, lobby, redis, channels>>

(* CanLeaveTable: an applicant does not leave.                             *)
OnLoginOut ==
    /\ game.here /\ game.locked = 0
    /\ Len(toLobby) < MaxToLobby
    /\ \E owed \in BOOLEAN : game' = Away(owed)
    /\ redis' = FALSE
    /\ toLobby' = Append(toLobby, [kind |-> "leave", amount |-> 0])
    /\ UNCHANGED <<account, lobby, toGame>>

-----------------------------------------------------------------------------
Next ==
    \/ OnProcessEvent
    \/ Login \/ OnLoadAccountDataEvent \/ OnLoadOtherDataEvent \/ CheckRecoverPlayer
    \/ EnterGameSvr \/ LobbyReceives \/ GameReceives
    \/ UnLockApplyScore \/ OnLoginOut
    \/ \E v \in Amounts :
         \/ LobbyChange(v) \/ GiveSafeBox(v) \/ PhpChange(v)
         \/ ChangeScoreValueByUID(v) \/ GameChange(v) \/ LockApplyScore(v)

Spec == Init /\ [][Next /\ UNCHANGED column]_vars

-----------------------------------------------------------------------------
(* The player object is what the row will be when the queue is worked off, *)
(* through clamped settlements and changes by PHP that overtake the queue, *)
(* unless the account was changed while the login's load was under way     *)
(* (CPlayer::SyncChangeAccountValue, PhpAtomChangeAccountValue).           *)
MemoryExact == lobby.state = "play" /\ ~raced => lobby.coin = Account

(* The game server's copy, with what an application has locked of it,      *)
(* agrees with the lobby's object up to what is on the way, and no         *)
(* settlement on the way takes more than is there.                         *)
CopyAgrees ==
    /\ game.coin + game.locked + Carried(toGame, "update") = lobby.coin + Carried(toLobby, "change")
    /\ game.coin >= 0
    /\ \A n \in 0 .. Len(toLobby) : lobby.coin + Carried(SubSeq(toLobby, 1, n), "change") >= 0

(* Both servers hold the player, and the lobby knows where it is.          *)
InGame == game.here /\ lobby.state = "play" /\ lobby.away

(* Once the copy agrees it goes on agreeing for as long as the player is   *)
(* in the game: through recharges, purchases and settlements that cross on *)
(* the two channels, through applications for the bank, which the lobby is *)
(* not told of, and through entering again (handle_msg_enter_svr,          *)
(* handle_msg_update_change_acc_data, CGamePlayer::SyncChangeAccountValue).*)
(* The safe box is excepted: gifts to it are not sent to the game server.  *)
CopyStaysRight == [][column = "coin" /\ InGame /\ CopyAgrees /\ InGame' => CopyAgrees']_vars

(* The guard of AtomChangeAccountValue, (coin + v) >= 0, keeps the row     *)
(* from becoming negative.                                                 *)
RowNotNegative == db >= 0
=============================================================================
