# Models of the game66 servers

TLA+ modules, TLC runs and TLAPS proofs about the server side of game66: the
lobby server, the game server framework and the services they share. Paths
below are relative to `src/game66/server/servers/` unless they start with
`src/`.

## 1. The system

One **lobby server** holds the connections of the clients and of PHP, the
player objects and the database connections. One **game server** process per
game (land, zajinhua, texas, ...) is linked with the common framework
`game_server/src` and a subclass of `CGameTable`. A client talks only to the
lobby, which routes its game messages; lobby and game server talk over TCP.
MySQL keeps the accounts, redis keeps which server a player is in and what the
game servers have to remember between visits.

Every server is a single-threaded event loop: a packet handler, a timer
callback or the callback of a database reply runs to its end before the next
one starts. Database work is done by one thread per database, each with a
request and a reply queue (`CDBTask`), and by a second, synchronous connection
that the event loop uses directly.

### Components

| component | state | operations | hard behaviour |
|---|---|---|---|
| Lobby connections and login (`lobby_server/src/game_net_mgr.cpp`, `msg_client_handle.cpp`, `player.cpp`, `async_dbcallback.cpp`, `common/src/player_mgr.cpp`) | pooled `ClientHandle`s, map uid -> `CPlayer`, load marks, `m_loadTime`, `m_disconnectTime` | login, repeated login, takeover, load replies, disconnect, heartbeat timeout, kick, maintenance, recovery timer | late and lost replies, takeover, reuse of handles, stale timestamps |
| Account values (`player.cpp`, `msg_php_handle.cpp`, `msg_server_handle.cpp`, `common/src/player_base.cpp`, `common/src/dbmysql_mgr.cpp`, `game_server/src/game_player.cpp`) | row, queued deltas, lobby object, game server copy | clamped change, atomic change, settlement, recharge, gift, safe box | two writers of one row, one of them past the queue; a copy in another process |
| Database threads (`src/game66/frame/server_frame/src/dbmysql/db_task.cpp`) | request and reply queues | execute in order, reply, drop on failure | asynchronous replies without identity |
| Matching rooms and tables (`game_server/src/game_room.cpp`, `game_table.cpp`, `game_player.cpp`, `msg_lobby_handle.cpp`) | rooms, matching queue, tables, seats, readiness, player pointers | enter / leave room and table, ready, quick start, matching timer, recovery, maintenance | raw pointers between three kinds of object, checks that become stale, a `while` loop that must end |
| Land tables (`land_robot_server/src/game_imple_table.cpp`) | state of the game, seats, blockers, hands, bids, cards to beat | ready timeout, deal, bid, redeal, play, pass, autoplay, settlement, expulsion of rich players | every path out of a game leaves room and players consistent; seats that never answer; balances debited during a hand |
| Server registry and hand-over (`lobby_server/src/server_mgr.cpp`, `msg_server_handle.cpp`, `player.cpp`, `game_server/src/lobby_mgr.cpp`, `msg_lobby_handle.cpp`, `game_player.cpp`) | map server id -> connection, current server of a player, its copy in the game server, online server id in redis | register, remove, enter, leave, go on to another server, network state, routing, recovery | restarts, broken connections, stale entries, messages that cross or get lost |
| Missions, sign-in, daily reset (`lobby_server/src/mission_mgr.cpp`, `player.cpp`) | counters per player and day | count, reward, reset | day boundary against login and offline days |
| Robots (`lobby_server/src/gobal_robot_mgr.cpp`, `game_server/src/robot_mgr.cpp`) | free and used lists | lend, return, join and leave tables | a robot lent twice, or never returned |
| Stock and jackpot (`game_room.cpp` 1970-2072) | stock, jackpot, rates | promise a payout when dealing, settle at the end | several tables promise from one jackpot |
| Welfare (`game_server/src/active_welfare_mgr.cpp`, `new_register_welfare_mgr.cpp`) | records in redis | account a win or a loss, compensate | record and period read and written apart |
| Banker games: queue and locked score (`game_server/src/game_table.cpp` 3821-) and rounds (`twoeight_server/src/game_imple_table.cpp`) | banker, its buy-in, queue, locked scores, bets | apply, jump the queue, cancel, choose and replace the banker, bet, settle | coin checked for one purpose and spent on another; a banker or applicant that goes away |
| Card logic, AI, other games (`*_server/src`, `land_robot_ai_ex`) | cards of one round | evaluate, play | pure computation on large data |
| Configuration, redis and log wrappers (`common/src`), frame library (`src/game66/frame`), generated messages (`src/game66/common/cs_msg`) | - | - | no protocol of their own |

What makes them correct:

* login: a player has at most one connection and a connection at most one
  player; data changed in memory is not overwritten by an older read once the
  player plays; nobody who plays on a connection is deleted unless kicked or in
  maintenance, everybody who is gone is;
* account values: the row the queue leads to is what the lobby holds, the game
  server's copy differs from it only by messages on the way and by what is
  locked for the bank, no balance is negative;
* rooms: pointers, seats, queue and counter agree; who plays together may play
  together, and nobody leaves or is deleted during a game; matching ends and
  does not use up tables; players that are gone are recovered;
* registry: the server the lobby routes a player to has it, or the lobby
  learns better; redis names no server that will never have the player; a copy
  nobody routes to is reclaimed;
* bankers: what is locked is given back once; bets stay covered on both sides
  until they are paid; nothing makes coin; the seat is filled and given up;
* land hands: no card is lost or doubled; whoever is asked can act; the landlord
  is the highest bidder; winners get what losers pay; a hand ends;
* missions: a reward is paid once a day, and a day missed is not counted;
* robots: every robot is in exactly one list; stock: what players win or lose
  and stock + jackpot add up, and a promise is covered.

## 2. Modules

| module | models | built on |
|---|---|---|
| `LobbyLogin` | connections, login, loading and recovery in the lobby | |
| `LobbyLoginProofs` | its proofs | `LobbyLogin`, TLAPS |
| `Sums` | sums over finite sets: what players hold, what messages carry | |
| `SumsProofs` | lemmas about sums | `Sums`, TLAPS |
| `AccountSync` | one account column in row, queue, lobby, game server and channels | `Sums` |
| `AccountSyncProofs` | its proofs | `AccountSync`, `SumsProofs`, TLAPS |
| `MatchMaking` | what a matching room promises (abstract) | |
| `GameRoom` | the room, its tables and the players in it | implements `MatchMaking` |
| `GameRoomProofs` | its proofs, the refinement included | `GameRoom`, TLAPS |
| `SvrHandoff` | one player between lobby, game servers and redis, over connections that break | |
| `SvrHandoffProofs` | its proofs | `SvrHandoff`, TLAPS |
| `BankerTable` | a twoeight table: the queue for the bank, locked coin, bets, rounds | `Sums` |
| `BankerTableProofs` | its proofs | `BankerTable`, `SumsProofs`, TLAPS |
| `BankerMoneyProofs` | proofs about its coin as a whole | `BankerTableProofs` |
| `LandGame` | one land table: deal, bids, play, settlement | |
| `LandGameProofs` | its proofs | `LandGame`, TLAPS |
| `MCLobbyLogin`, `MCAccountSync`, `MCGameRoom`, `MCSvrHandoff`, `MCBankerTable`, `MCLandGame` | small instances for TLC | the module each is named after |

No module declares a RECURSIVE operator. Operators named `...KeepsOld`,
`...AnyState`, and so on, with a comment `fault:`, are not part of any
specification: each is a handler with a plausible mistake and stands before
the handler it is a variant of, to check that the properties notice it.

### LobbyLogin

`sock[s]` is a `ClientHandle` of the pool: open, its peer alive, the uid it
carries. `player[u]` is the `CPlayer` of a uid, with its state (`none`: no
object), session, which parts of its data have arrived (`loaded`) and which it
has modified since (`changed`), the age of its load request, the age of its disconnection (`m_disconnectTime`), the kick mark and
whether it is in a game server. `loads[t]` is one database thread's queue; a
request and its reply are one entry, since the lobby cannot tell a waiting
request from a waiting reply. `status` is running or repair.

| action | code |
|---|---|
| `Connect`, `CloseClient`, `ClientVanishes`, `HeartTimeout` | `ClientHandle::Init`, `OnPacketComplete`, `OnTimer`, `DestroyObj` |
| `LoginAgain`, `TakeOver`, `FirstLogin` | the three ways through `handle_msg_login` |
| `OnLoadEvent`, `QueryFails` | `OnLoad...DataEvent`, `CDBTask::OnProcessEvent` |
| `PhpKill`, `CheckRepairServer` | `handle_php_kill_player`, `CServerMgr::CheckRepairServer` |
| `ModifyData` | any change of data: those guarded by `CanModifyData` or `IsPlaying`, and three that ask for no state and reach the account of a loading object, too: the receiver's side of `handle_msg_give_safebox`, `handle_msg_update_lobby_change_account_data`, `handle_php_update_accvalue_ingame` |
| `EnterGame`, `LeaveGame` | `CPlayer::EnterGameSvr`, `handle_msg_leave_svr` |
| `ClockTick`, `FlushTick`, `CheckRecoverPlayer` | time passing, `CPlayer::OnTimeTick`, `CPlayerMgr::CheckRecoverPlayer` |

The user row, account row and game rows are asked of one thread one after the
other and are one part; missions come from another thread and are the second
part. Ages count clock steps and stop one step beyond their limit, which is
exact because the code only asks whether the limit is exceeded. `Followed`
bounds the parts whose modifications a run follows.

### AccountSync

The variable `column`, chosen at the start from the constant `Columns`, says
which column the behaviour is about: coin, which settlements change, or
safecoin, which gifts of other players change. `db` is the row; `queue` the account
thread's requests (relative updates and reads); `replies` the reads that are
answered; `lobby` and `game` the two objects; `toGame` and `toLobby` the TCP
streams; `redis` whether redis says the player is in the game server.
Operators carry the names of the member functions: `SyncChange` (clamp, change
the object, queue the delta), `AtomChange` (one guarded UPDATE at once),
`ChangeScoreValueByUID`, `Updated`, `Entered`. `Carried` is the sum of what the
messages of one kind in a queue or stream carry. `game.locked` is what an
application for the bank has taken off the copy: `LockApplyScore` and
`UnLockApplyScore` change the copy in memory, and the lobby is not told.
The variable `raced` is history:
it says that something changed the account while this login's read was under
way. The code has no defence against that, so `MemoryExact` excludes it, and
says that nothing else makes memory and row differ.

### GameRoom and MatchMaking

The room is one record of what the code keeps in `CGameRoom`, `CGameTable` and
`CGamePlayer`, and each member function is an operator from such a record to
the one it leaves behind, so that a handler is a composition of the calls it
makes: `LeaveRoom(LeaveTable(w, p), p)` is the code's `LeaveTable` followed by
`LeaveRoom`, with every early return of both. `TakeChair` includes the
automatic `PlayerReady` that follows sitting down, which may send the player
out of the room or back to the queue.

The configuration is that of the land coin rooms
(`src/game66/server/dbmsql/chess_sysdata.sql`:524): roomtype 0, marry 1, robot 0,
entermin and entermax set. `MarryTable` is a loop inside one timer callback.
It takes one step per player looked at, and `marry.on` disables everything
else meanwhile, as in the code; this makes the end of the loop a property
(`MarryEnds`) and not an assumption.

`MatchMaking` knows players, companies that play, and who avoids whom. It has
four actions: a player comes, goes; a company starts, ends. The refinement
mapping takes the occupied playing tables for the companies and everybody else
on the server for the idle players.

### SvrHandoff

One player, any number of game servers. The state is what each process keeps
of the player: `lobby` (the `CPlayer`: loading or playing, a connected client or
not, `cur` for `m_curSvrID`), `redis` (the online server id), and per server
`game[s]`: whether the process is up, `run` (`m_lobbySvr.isRun`), `fd` (its
connection), `here` (no copy, a copy on line, a copy off line), `busy` (in a
round it may not leave), `stopped` (maintenance). `svrs` is `m_mpServers`,
`open` the `ServerHandle`s, `toGame` and `toLobby` the two directions of each
connection. The two ends of a connection are closed one after the other, and
what is on the way when an end goes is lost.

| action | code |
|---|---|
| `Login`, `ReLogin`, `OnGetAllData`, `ClientGone` | `handle_msg_login`, `CPlayer::ReLogin`, `OnGetAllData`, `ClientHandle::DestroyObj` |
| `ClientEnters`, `ClientAsks` | `handle_msg_enter_gamesvr`, `route_to_game_svr` |
| `CheckRecoverPlayer` | `CPlayerMgr::CheckRecoverPlayer` with `CPlayer::NeedRecover` and `OnLoginOut` |
| `LobbyReceives` | `handle_msg_register_svr` (`AddServer`, `SyncPlayerCurSvrID`), `handle_msg_leave_svr`, `handle_msg_notify_change_account_data`, `route_to_client` |
| `CheckRepairServer`, `DestroyObj`, `LobbyCrash` | `CServerMgr::CheckRepairServer`, `ServerHandle::DestroyObj` with `RemoveServer`, `CServerMgr::Init` after a crash |
| `OnClose`, `ReConnect` | `CLobbyNetObj::OnClose`, `CLobbyMgr::ReConnect` |
| `GameReceives` | `handle_msg_register_rep`, `handle_msg_enter_svr`, `handle_msg_notify_net_state`, `handle_msg_notify_stop_server`, `handle_msg_back_lobby`, `handle_msg_goto_svr` |
| `StartGame`, `OnGameEnd` | the start of a round (the table announces it) and its end (`NotifyLobbyChangeAccValue`) |
| `HeartTimeout`, `RecoverCopy` | `CGamePlayer::OnTimeTick`, `CPlayerMgr::CheckRecoverPlayer` with `CGamePlayer::OnLoginOut` |
| `Crash`, `Restart` | the death of a process, `GameServerInit` with `ClearPlayerOnlineSvrID` |

A message a client or a game sends matters here only through what it makes the
other side do: a `route` is any message for the client, which the lobby answers
with a network state if it does not know the player. `LEAVE` carries the server
the player goes on to (`goto`), as in the code. `SendMsg2Client` has the
reconnecting `Send` of the frame: on a closed connection it opens a new one, on
which nobody registers.

### BankerTable

`tb` is the table's money in one record: `banker` (`m_pCurBanker`) and `bank`
(the `m_lBanker...` scores, `m_needLeaveBanker`, `m_wBankerTime`), `list` and
`lock` (`m_ApplyUserArray`, `m_ApplyUserScore`), `auto` (`m_mpApplyUserInfo`),
the balances, the bets by player, and `all`, the total of the bets by area.
Member functions are operators from such a record to the one they leave:
`ChangeBanker` is `AutoAddBankerScore`, then `CalcBankerScore` and `TakeTurns`
if the banker steps down. `jumped` is history: who has paid for a place in the
queue since bets were opened.

A request for several bets is checked by the sum of its amounts, which the code
keeps in an int64: `Wrap` is that sum, and the bets recorded are the amounts
themselves. `overflows` is history: how many requests were accepted whose sum had
wrapped. All other numbers are integers without a limit, so nothing is said of
amounts after such a request.

| action | code |
|---|---|
| `EnterTable`, `LeaveTable`, `NeedRecover` | `CanEnterTable`, `CanLeaveTable`, `OnPlayerJoin`, the recovery of the table |
| `SetNetStateOff`, `SetNetStateOn` | `CGamePlayer::SetNetState` with the attempt to leave |
| `OnUserPlaceJetton`, `OnUserContinuousPressure` | the handlers of these names, `GetUserMaxJetton` |
| `OnUserApplyBanker`, `OnUserJumpApplyQueue`, `OnUserCancelBanker` | the handlers of these names, `LockApplyScore`, `RemoveApplyBanker`, `FlushApplyUserSort` |
| `OnBrcControlApplePlayer` | the control command that forces a player out |
| `CheckRoomCanGameStart`, `StartRound`, `EndRound`, `ChangeTurn` | the ticks of the states free, jetton, end: `OnGameStart`, `OnGameEnd` with `CalcPlayerInfo`, `ClearTurnGameData`, `ChangeBanker` |
| `CheckRobotApplyBanker`, `AskRobot`, `OnGameStartWithoutBanker` | `CheckRobotApplyBanker` and its loop over the robots, in which each robot is asked in a step of its own |

Cards are left out: a round may end with any multiple up to `Rate`, won or
lost, in each area, which contains whatever cards, stock and control lead to.
The order of equal amounts after sorting is left open, and so is the order in
which the robots are asked.

### LandGame

Three seats of one table. The variables carry the names of the code's members;
`bombTimes` is 2 to the power of `m_bombCount`, and `income` is what
`m_hostIncome` gains from this hand. The plays there are, what beats what and
which are bombs (`land_logic.cpp`) are constants, as are the deals, each of which
stands for a shuffle, an open card and the hands exchanged by control.

`Card` is the set of entries a deck has, and hands and piles are sets of these.
The bytes of a play are compared with nothing but the hand, so a play may also
have entries that are no card (`Blank`, the byte 0x00). `Gone` is what the hand
loses by `RemoveCardList` and by the subtraction that follows it: the cards of
the play, and one more for each entry that matched a slot just zeroed. (The code
sorts the play first, so that such an entry must follow a card of no lower value;
`Gone` only asks for a card.) The played bytes go to the pile and are dealt again
when the pile is a full deck: `blank` says that the deck in use is such a one, and
then the model knows how many entries each hand has but not what they hold, and
any of them may match. A new deck ends this.

| action | code |
|---|---|
| `EnterTable`, `PlayerReady`, `Leave`, `FlushChangeAccData` | sitting down with `AutoReady`, `PlayerReady`, leaving and `CheckReadyTimeOut`, a debit reported by the lobby |
| `OnGameStart` | `OnGameStart` with `ShuffleTableCard` and the deal |
| `OnUserCallScore` | the bid; with it `SetBanker` and `DeductStartFee`, or `ReGameStart`, when it decides |
| `OnUserOutCard`, `OnUserPassCard` | the play and the pass, with `OnGameEnd` and `CalcScore` on the last card |
| `AutoCard` | `OnUserAutoCard`: timeout, seat on auto, robot; the AI may answer anything |

## 3. Runs

Every property of a passing run has at least one mutant: a variant of a mapped
definition that makes TLC find the property violated under the same bounds.

| run | instance | checks |
|---|---|---|
| `LobbyLogin` | 2 players, 2 handles, 2 requests per thread, modifications of the account; symmetric | `TypeOK`, `SessionsOwned`, `ChangesKept`, `ConnectedKept` |
| `LobbyLoginLive` | 2 players, one of them without account row, 1 handle; fairness | `AbandonedReclaimed`, `RepairDrains` |
| `AccountSync` | coin and safecoin, amounts -1 and 1, balance up to 2, 2 requests, 1 message to the game server, 2 to the lobby | `TypeOK`, `MemoryExact`, `CopyStaysRight` |
| `AccountRow` | the same for coin, the account may fall to -1 | `RowNotNegative` is violated |
| `GameRoom` | 3 players, two of one address, one of an unknown one; tables of 2, two at the start, at most 5; limits on coin; symmetric | `TypeOK`, `Membership`, `FewTables`, `ImplementsMatchMaking` |
| `GameRoomLive` | 2 players, limits on coin, maintenance, idle clients; fairness | `Membership`, `ImplementsMatchMaking`, `MarryEnds`, `OfflineRecovered` |
| `SvrHandoffLive` | 1 server, 2 connections, 2 failures, maintenance; fairness | `TypeOK`, `Routed`, `RedisTruthful`, `PlaceRight`, `CopyReclaimed`, `Forgotten` |
| `SvrHandoffReconnect` | 1 server, 2 connections, 1 failure | `ReconnectKeepsPlace` is violated |
| `BankerTable` | 2 players and a robot with balances 2, 1, 1; two areas, bets of 1, multiple 1, sums wrap beyond 1, one such request | `TypeOK`, `BankerCovers`, `BettorCovers`, `LockConsistent`, `TotalsAgree`, `NothingMinted`, `BankerStays` |
| `BankerTableLive` | a player and a robot with balances 4 and 3; two areas, buy-ins 2 to 4, multiples to 2, sums wrap beyond 1, one such request; fairness | `BankerCovers`, `BettorCovers`, `SeatFilled`, `TurnEnds` |
| `BankerTableBalance` | as `BankerTable`, longer turns, no request whose sum wraps | `AccountsBalance` is violated |
| `LandGame` | 5 cards and an entry that is none, balances of 4, bids 0, 1, 3, debits of 3, fee of half the win; fairness | `TypeOK`, `CardsConserved`, `TurnRight`, `LandlordBidMost`, `SettledInFull`, `HandEnds` |

Why the bounds are enough. Two sockets and two players give every takeover, a
handle reused by another player, and a reply that is older than the object it
meets; two requests per thread give a repeated login. Limits of 0 clock steps
let every timeout come at once or never. Modifications of the missions are those
of the account without the exception, so TLC follows the account's only (none
where liveness is asked, which they do not touch); the theorem is about both. For accounts, amounts of one coin
around a balance of 0 to 2 reach the clamp, the guard that fails and both sides
of every comparison; two requests and two messages to the lobby let a change
overtake another and a settlement be on the way with the `LEAVE` behind it, and
one message to the game server crosses them. Two on both channels are beyond
TLC's reach in good time; `AccountSyncProofs` has no bound on either. In rooms,
two chairs and three players give a full table beside a player that waits; coin
0 and 1 with both limits 1 lies below and at the limits, and in `GameRoomLive`, where
it goes to 2, above them, too. `TableNum` tables
are there at the start, as `CGameRoom::Init` makes them: two of them for three
players, so that all tables can be in use and one more be needed, and one for two.
`MaxTables` bounds the tables made: `BeginMarry` is disabled when the queue could
use up what is left.

In the hand-over, two connections give an old one beside its successor, and two
failures at any moment, a failure being a break or a crash, give every loss
that follows from them. TLC has one server, and going on to a server is going on
to itself; the safety properties are proved for any number of servers, the
liveness of a hand-over between two is not checked. `MaxChannel` keeps clients
and games from starting something while a message is on the way on that
server's connections; answers are not held back, so queues become longer than
it.

For the banker table, three players are a banker, one that queues and one that
bets, in any roles; coin of 1 and 2 puts every balance at, above and below each
of the limits, which are 1 or 2, and one round is a whole turn. With multiple
1 a bet and its stake are the same number, and with minimum 1 there is only one
size of most things, so the second run has multiples to 2, buy-ins from 2 to
4 and turns of two rounds. `MaxInt` stands for the largest int64: with 1, a bet in
both areas has a sum that wraps. `MaxOverflows` allows one such request; more
only repeat what one does.
Balances are not bounded, but coin only leaves the three players (or is made
as `AccountsBalance` shows, or after a wrapped sum), so the states are finitely many. For land, five
cards with two of a value, which are the bomb, give a lead, a play beaten by a
higher one of its kind and by the bomb, passes that come round, a last card, and a
spring on both sides; since each seat may bid first and the deal is uneven, every
hand is somebody's. A king and the entry 0x00 make a pair, which its holder plays
with a card left over or as its last two, so that the next deck has such an entry.
Balance 4 at base score 1 and a debit of 3 put the stakes above
and below what the players hold, and a pair of winners above the limit.

Deadlock checking is on in all runs.

`MaxDebt = 0` in `AccountSync` leaves out only what
follows the violation `AccountRow` shows: steps that would take the account
below 0.

### Fairness

`LobbyLogin`: weak fairness of the timers (clock, tick, recovery), the
heartbeat timer of each socket and the delivery of database replies. Nothing
is assumed of clients, PHP, game servers or maintenance; a query may fail every
time. `GameRoom`: weak fairness of the matching timer's loop; strong fairness
of the recovery timer for each player and of the end of each game, which in the
code follows from turn timeouts that act for a silent player. Strong, because
those are disabled while the matching loop runs, which in the code takes no
time but in the model may happen between any two steps. `SvrHandoff`: weak
fairness of reading messages, of noticing a connection whose other end is
closed, of the lobby's timers, of the game server's timer that connects again,
and of restarting a process (which an operator or a watchdog does). Strong
fairness of the end of a round, of the silence timeout of a player the lobby
has no connected client for in that server, and of the recovery of its copy:
messages on the way or a round may disable them now and then, but each has its
timer in the code. Nothing is assumed of clients, and failures stop after
`MaxFailures`. `BankerTable`: weak fairness of the table's tick and of the room's
check whether games may start, which timers call; nothing is assumed of players
or of the control. `LandGame`: weak fairness of `AutoCard` alone, since a turn
times out and the table then plays for whoever sits there.

## 4. What is found

* **The guard of the atomic UPDATE does not keep a balance from becoming
  negative** (`AccountRow`). `AtomChangeAccountValue` compares with a row
  from which queued decreases are still missing. Eight states: the player
  logs in, spends a coin in the lobby (the delta is queued), goes away and its
  object is recovered, PHP takes the coin that is still in the row, the account
  thread executes the delta.
* **The banker table makes coin** (`BankerTableBalance`). Applying for the bank is
  refused to a player with bets out, paying for the first place in the queue is
  not. Fourteen states: a robot is banker, a player queues second, bets its
  remaining coin, pays with that coin for the first place and loses. Its balance
  stops at 0, the banker is credited in full. Without such a payment, and without a
  request whose sum has wrapped (below), nothing makes coin (`NothingMinted`).
* **A reconnecting server loses its player's place** (`SvrHandoffReconnect`).
  The design document says that a server that reconnects keeps its players'
  state, and `SyncPlayerCurSvrID` is there to restore it from redis. `AddServer`
  calls it before it inserts the server, `SetCurSvrID` finds no such server, and
  the place becomes 0 in the lobby and in redis. Eleven states: the player is in
  the game, the connection breaks, the server registers again. `CopyReclaimed`
  says what remains true: the copy does not stay for ever. The same document
  (section 4) says that after a restart of the lobby the game servers refresh
  the players' states; no code does that.

Three more weaknesses are written into the properties as exceptions: what is
claimed holds unless one of these has happened.

* Where a room has a lower limit on coin, tables are used up: `MarryTable` makes a
  table for a player that may not sit at any table any more and then expels the
  player, and empty system tables are never recovered, whatever the comment of
  `CheckRecover` says (`game_room.cpp`:918). `FewTables` says that tables are made
  for no other reason once there is one more than players; it does not bound how
  often this happens.
* The sum of a request for several bets may wrap
  (`twoeight_server/src/game_imple_table.cpp`:938), and it is the wrapped sum that is
  compared with the player's and the banker's coin. `BankerCovers`, `BettorCovers`
  and `NothingMinted` hold until such a request was accepted; that locks, totals and
  the banker stay right afterwards, too, is stated without the exception.
* `RemoveCardList` takes an entry 0x00 of a play for the card it has just removed
  (`land_robot_server/src/land_logic.cpp`:284): a card leaves the hand without being
  played. `CardsConserved` holds until such an entry is played and again from the
  next new deck; turn, bids and settlement stay right all the time.

Smaller things, seen while reading: renewing a private table although the
coins do not suffice (`game_server/src/msg_lobby_handle.cpp`:1225), erasing `end()`
from the list of controlled players (`game_table.cpp`:1971),
`FastJoinEveryColorTable` giving up when leaving the old table succeeded
(`game_room.cpp`:653), a start fee booked in full although the balance was
smaller (`game_table.cpp`:1700), a paid first place in the banker's queue undone
by the sort after the next application.

## 5. Proofs

All for every value of the constants, under the assumptions named in the
modules: in `LobbyLogin` that the null values are no sockets or uids and the
limits are naturals; in `AccountSync` that the columns are among the two,
amounts are integers of either sign, and the first balance and the bounds
naturals; in `GameRoom` that players are finitely many, tables have at least
one chair, limits are naturals and the tables at the start are among those
counted; in `BankerTable` that figures are naturals, the largest int64 included,
the condition for a banker positive and its limit at least twice that (a robot
draws its buy-in from that interval); in `LandGame` that every single card may
be played, entries that are no card are none of the deck, and every seat is dealt
a card.

`LobbyLoginProofs`

* `TypeCorrect`: `Spec => []TypeOK`. Inductive as it stands.
* `SessionsAreOwned`: `Spec => []SessionsOwned`, inductive together with
  `TypeOK`. The step that matters is `TakeOver`, where the old socket must lose
  the uid in the same step, since the recovery of a player destroys only the
  socket its session names.
* `ChangesAreKept`: `Spec => ChangesKept`, from the invariant
  `LoadingUnchanged`: of an object that does not play at most the account is
  modified, and a reply is accepted only while it loads. The invariant is needed
  because a reply says nothing about the login that asked for it. The exception
  `ChangesKept` makes is real: the account's reply undoes what a gift, PHP or a
  running game has done to a loading object (`raced` in `AccountSync`).
* `ConnectedAreKept`: `Spec => ConnectedKept`, which says nothing of a player that
  was kicked or of maintenance. Two lemmas: only the recovery timer deletes an
  object (`OnlyTimerDeletes`), and
  what it asks (`NeedRecover`) is false of a player who plays on an open
  connection, whatever its age of disconnection still says.

`SumsProofs`

A sum is counted unit by unit: `Units(f)` has `f[p]` elements at `p`, and `Sum`
is its cardinality, so that facts about sums follow from facts about finite
sets, without induction over data. From this: one summand changed, summands
renamed, a part left out, all scaled; and for `NetSum`, which has summands
of either sign, a last one appended and a first one taken away.

`AccountSyncProofs`

* `AccountTypeCorrect`: `Spec => []TypeOK`, from the types of the handlers.
* `MemoryIsExact`: `Spec => []MemoryExact`, by the invariant `Exact`. What
  `MemoryExact` says of a player that plays has to be prepared while it loads:
  behind the login's read nothing but reads may wait (`LoadsLast`), and a balance
  that was read is the account, as long as nothing raced with it. And while it
  plays, a negative account is played with only when no change waits
  (`PlayExact`), since otherwise a recharge that the row can take, and so does
  in full, would be clamped in the object.
* `CopyGoesOnAgreeing`: `Spec => CopyStaysRight`, by the invariant `Recharges`:
  for coin, what is on the way to the game server is never a debit. The copy is
  counted together with what is locked of it; what is left of it may be spent,
  and a settlement is clamped against that part alone, so that no settlement on
  the way takes more than is there. `CopyAgrees` asks that the lobby can pay each settlement on the way when it arrives, hence
  something of every prefix of the stream; the lemmas on prefixes say what
  becomes of these when a message is sent and when one is read.

`GameRoomProofs`

* `RoomTypeCorrect`, `RoomMembership`: `Spec => []TypeOK` and
  `Spec => []Membership`. Neither is inductive alone: that `playerNum - 1` is a
  natural number needs the counter to be the number of members.
* `RoomImplements`: `Spec => ImplementsMatchMaking`.
* `RoomFewTables`: `Spec => FewTables`, from the same invariant. Where the player
  for whom a table is made is not expelled, every other table has somebody at it,
  and each of them somebody else: the tables at the start may be more than the
  players, but then no new one is made.

The inductive invariant `IInv` is `TypeOK`, `Sound(room, {})`,
`Civil(room)`, and that members have objects. `Sound(w, X)` is `Membership` as
a fact about a room record, except that the players of `X` may be seated and
queued at once: this is what holds between `TakeChair` and `LeaveMarry`.
`Civil(w)` says that players at a table never share an address, that a ready
player is blocked by nobody at its table, and that playing tables are full; it
is what makes a game that starts one that `MatchMaking` allows. `Quiet(w, v)`
says that two records have the same games. There is one lemma per member
function (what it keeps of `Sound`, `Civil` and `Quiet`) and one per action,
and the actions' proofs compose the lemmas in the order of the calls.

`SvrHandoffProofs`

* `HandoffTypeCorrect`, `RedisIsTruthful`: `Spec => []TypeOK` and
  `Spec => []RedisTruthful`, from the invariant `IInv`, which is the two
  together. A copy is made in the step that writes its
  server to redis and given up in the step that writes 0, in that order in one
  handler; the restart clears what the crash left.
* `AlwaysRouted`: `Spec => []Routed`, from `RInv`, which adds `RedisTruthful` and
  `RegisteredOpen` (a registered connection is one the lobby has open). The step
  that matters is registering: the place is read from redis again, and since
  redis is truthful the server that registers, being up, has the player if redis
  names it. `Routed` asks for the `LEAVE` on the registered connection itself,
  because one on an older connection may be thrown away with it.

`BankerTableProofs`

* `LocksAreConsistent`, `BankerAlwaysCovers`, `BettorsCover`, `TableTypeCorrect`:
  the invariants of those properties, and `BankerIsKept`: `Spec => BankerStays`.
  The cover is claimed while `overflows = 0`; locks and types need no cover.

The inductive invariant says of the record `tb` that the locks and the seat are
right (`Locks`, `Seat`), and, since cover has to be there when bets open, that
between two rounds no bets are out and the banker's score is not below the
condition. `BankerCovers` alone is not inductive: that the banker
holds its score when it leaves the queue needs that what was locked for it is
given back, which needs that it was in the queue once. There is one lemma per
member function (from a sound record it leaves a sound one) and one per handler.
That a bet within `GetUserMaxJetton` keeps the multiple of all bets within the
score is `BetCovered`, about integer division.

`BankerMoneyProofs`

* `TotalsDoAgree`: `Spec => []TotalsAgree`, by the invariant `Balanced`: while
  bets are taken they add up to the table's total, and the banker has none. The
  second part is needed because a settlement is with everybody but the banker.
* `NothingIsMinted`: `Spec => NothingMinted`. Whatever is not a settlement makes
  no player richer, coin and lock together (`NoRicher`, one lemma per member
  function, composed along the calls), so the sum does not grow. A settlement makes
  some richer, and is weighed over all players at once: what the bettors win is
  what the banker loses, because by `BettorsCover` and `BankerAlwaysCovers` no
  balance stops at 0, and the fees only go away.

`LandGameProofs`

* `GameTypeCorrect`, `NoCardIsLost`, `TheTurnIsRight`, `TheLandlordBidMost`, and
  `HandsAreSettled`: `Spec => SettledInFull`.

The inductive invariant is these four, `EntriesApart` and `BidsRight`. Hands and
pile are apart and make up the deck's entries whatever was played (`EntriesApart`);
only that what is to beat lies in the pile needs plays of cards (`PlayedIsOut`).
`BidsRight` says that between hands no bids are
left, during the bids the leader is the only one with its bid, nobody has bid
three, and those still to bid stand at 0. Without the last part `MaxCaller` could
choose a bid of the deal before. `HandsAreSettled` rests on `StakeCovered` (no
stake exceeds what a farmer holds, and two stakes do not exceed what the
landlord holds) and `CalcScoreRight`; it is these two that keep
`ChangeAccountValue` from stopping at 0.

Every invariant and every action property that a passing run checks is thus a
theorem. Only model-checked, because liveness under fairness is beyond the
prover: `AbandonedReclaimed`, `RepairDrains`, `MarryEnds`, `OfflineRecovered`,
`PlaceRight`, `CopyReclaimed`, `Forgotten`, `SeatFilled`, `TurnEnds`, `HandEnds`.
The three violations are counterexamples and need no proof.

## 6. What the models leave out

* `LobbyLogin`: password and version checks, which refuse a login without a
  change of state; what a login triggers besides loading (missions, mail).
* `AccountSync`: a second game server with a copy of its own (everycolor); a
  jump from one game server to another; restarts of either server.
  For safecoin no agreement of the game server's copy is claimed, because gifts
  are not sent to it.
* `GameRoom`: robots, the welfare of new players (its flag is taken as not
  set), other rooms than as the place a player goes to, a player's address
  changing between visits, other game servers writing the same blockers in
  redis, private rooms, rooms with onlookers. Bidding and playing are one state,
  since they neither seat nor remove anybody; `LandGame` has them.
* `BankerTable`: the cards and odds; the bets robots plan ahead
  (`m_RobotPlaceJetton`), which go through the same checks; seats and the limit
  on onlookers; debits of the lobby while a player is at the table, which are
  subject to the same objection as the paid place; stock, jackpot and the
  control of results, which choose cards; a room that stops games again once it
  has allowed them.
* `LandGame`: whether a seat is on auto or a robot (`AutoCard` may act at any
  time instead), the count of timeouts, dissolving a table (nothing calls it),
  stock, welfare and lucky control (they choose a deal or a hand), the AI
  (external), what may be played on what.
* `SvrHandoff`: the second server of everycolor, robots, maintenance of the
  whole lobby, other clients' sessions (`LobbyLogin` has them), what the copy
  contains (`AccountSync`). A table announces a change of network state in one
  or two messages to every seat; here it is one, to the player, and only in a
  round (a player seated without one leaves its table in the same handler). The
  lobby is up again at once after a crash. No property says that only one game
  server has the player: after a `LEAVE` that crosses a new `ENTER`, or a place
  forgotten at reconnection, two may have it until one is reclaimed.
* Most of the repository's lines are generated message code
  (`src/game66/common/cs_msg`, `common/src/pb`) and vendored libraries: there is
  nothing in them to model beyond what their users show.
* Components marked `not_modelled` in `PROJECT.json`, each with its reason.

## 7. Plan

Done: `LobbyLogin`, `AccountSync`, `MatchMaking`, `GameRoom`, `SvrHandoff`,
`BankerTable`, `LandGame`, and the proofs of all of their safety. In this order:

1. `Jackpot`: stock and jackpot of a room with several tables (`game_room.cpp`
   1970-2072); conservation as an invariant with a proof, coverage of promises
   as a question for TLC.
2. `Robots`: lending between lobby (`gobal_robot_mgr.cpp`) and game server
   (`robot_mgr.cpp`), the lists of the game server, what a room demands, and a
   load of robots whose query fails.
3. `DailyReset`: sign-in rewards and missions across a day boundary, a login
   and a day missed.
4. A second game server beside the first (everycolor) in `AccountSync` and
   `SvrHandoff`.
