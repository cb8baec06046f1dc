---------------------------- MODULE SvrHandoff -----------------------------
(***************************************************************************)
(* Where one player is.  The lobby keeps the player's current game server, *)
(* redis the server the player is online in, and each game server has or   *)
(* has not a copy of the player.  They agree by messages on TCP            *)
(* connections, which a game server opens, registers on, loses and opens   *)
(* again; servers crash and restart.  What a client wants while it is in a *)
(* game server is routed there by the lobby.                               *)
(***************************************************************************)
EXTENDS Naturals, Sequences

CONSTANTS
    Server,       \* the game servers
    Handle,       \* the lobby's pool of ServerHandles for each of them
    Maintained,   \* the servers that may be put into maintenance
    NoSvr,        \* server id 0: the lobby
    NoHandle,     \* no connection
    MaxChannel,   \* bound: messages on the way on one connection, one way
    MaxFailures   \* bound: connections that break, crashes

ASSUME HandoffAssumption ==
    /\ Maintained \subseteq Server
    /\ NoSvr \notin Server
    /\ NoHandle \notin Handle
    /\ {MaxChannel, MaxFailures} \subseteq Nat

VARIABLES
    lobby,     \* the lobby's player object and its connected client
    redis,     \* the server id kept for the player in redis
    svrs,      \* CServerMgr::m_mpServers: the connection of each registered server
    repair,    \* those the lobby has put into maintenance
    game,      \* each game server: its lobby connection, its copy of the player
    open,      \* the connections of each server the lobby has a ServerHandle for
    toGame,    \* messages to each server, by connection
    toLobby,   \* messages from each server, by connection
    failures   \* what has failed so far

vars == <<lobby, redis, svrs, repair, game, open, toGame, toLobby, failures>>
registry == <<svrs, repair>>
channels == <<open, toGame, toLobby>>

-----------------------------------------------------------------------------
Place == Server \cup {NoSvr}

Absent == [state |-> "none", session |-> FALSE, cur |-> NoSvr]
Lobby == [state : {"load", "play"}, session : BOOLEAN, cur : Place] \cup {Absent}

(* "on" and "off" are the network state of the server's copy; "run" is     *)
(* m_lobbySvr.isRun, "fd" the connection to the lobby.                     *)
Down == [up |-> FALSE, run |-> FALSE, fd |-> NoHandle, here |-> "out",
         busy |-> FALSE, stopped |-> FALSE]
Game == [up : {TRUE}, run : BOOLEAN, fd : Handle \cup {NoHandle},
         here : {"out", "on", "off"}, busy : BOOLEAN, stopped : BOOLEAN] \cup {Down}

Msg(kind) == [kind |-> kind, goto |-> NoSvr]
Goto(kind, t) == [kind |-> kind, goto |-> t]

ToGame == [kind : {"refused", "enter", "net_off", "net_on", "stop", "back_lobby"},
           goto : {NoSvr}] \cup [kind : {"goto_svr"}, goto : Server]
ToLobby == [kind : {"register", "change", "route"}, goto : {NoSvr}]
             \cup [kind : {"leave"}, goto : Place]

Here(s) == game[s].here # "out"

TypeOK ==
    /\ lobby \in Lobby
    /\ redis \in Place
    /\ svrs \in [Server -> Handle \cup {NoHandle}]
    /\ repair \subseteq {s \in Server : svrs[s] # NoHandle}
    /\ game \in [Server -> Game]
    /\ \A s \in Server : ~Here(s) => ~game[s].busy
    /\ open \subseteq Server \X Handle
    /\ toGame \in [Server \X Handle -> Seq(ToGame)]
    /\ toLobby \in [Server \X Handle -> Seq(ToLobby)]
    /\ failures \in 0 .. MaxFailures

Init ==
    /\ lobby = Absent
    /\ redis = NoSvr
    /\ svrs = [s \in Server |-> NoHandle]
    /\ repair = {}
    /\ game = [s \in Server |-> [Down EXCEPT !.up = TRUE]]
    /\ open = {}
    /\ toGame = [c \in Server \X Handle |-> <<>>]
    /\ toLobby = [c \in Server \X Handle |-> <<>>]
    /\ failures = 0

-----------------------------------------------------------------------------
(* Sending.                                                                *)

Exists == lobby.state # "none"

Fails == failures < MaxFailures /\ failures' = failures + 1
Free(s, h) ==
    /\ <<s, h>> \notin open /\ game[s].fd # h
    /\ toGame[<<s, h>>] = <<>> /\ toLobby[<<s, h>>] = <<>>

(* The bound on what clients and games start; answers go through.          *)
Room(s) ==
    \A h \in Handle :
      Len(toGame[<<s, h>>]) < MaxChannel /\ Len(toLobby[<<s, h>>]) < MaxChannel

(* To the game server on connection h: lost if it has closed its end.      *)
SendOn(s, h, m) ==
    toGame' = IF game[s].fd = h
              THEN [toGame EXCEPT ![<<s, h>>] = Append(@, m)]
              ELSE toGame

(* CServerMgr::SendMsg2Server: no server, no message.                      *)
SendMsg2Server(t, m) ==
    IF t \in Server /\ svrs[t] # NoHandle THEN SendOn(t, svrs[t], m) ELSE UNCHANGED toGame

(* A message a client gives rise to.                                       *)
Tell(t, m) == (t \in Server => Room(t)) /\ SendMsg2Server(t, m)

(* CLobbyMgr::SendMsg2Client.  CCTcpHandle::Send connects if it has to,    *)
(* and nobody registers on that connection.                                *)
SendMsg2Client(s, h, m) ==
    /\ IF game[s].fd = NoHandle
       THEN Free(s, h) /\ open' = open \cup {<<s, h>>}
       ELSE game[s].fd = h /\ UNCHANGED open
    /\ toLobby' = IF <<s, h>> \in open'
                  THEN [toLobby EXCEPT ![<<s, h>>] = Append(@, m)]
                  ELSE toLobby

-----------------------------------------------------------------------------
(* The lobby: clients.                                                     *)

(* CPlayer::SetCurSvrID(svrID, false): not to a server that is not there.  *)
CurSvrID(t) == IF t \in Server /\ svrs[t] = NoHandle THEN NoSvr ELSE t
SetCurSvrID(t) ==
    /\ lobby' = [lobby EXCEPT !.cur = CurSvrID(t)]
    /\ redis' = IF CurSvrID(t) # t THEN NoSvr ELSE redis

(* handle_msg_login: a new player object, or one being loaded again.       *)
Login ==
    /\ lobby.state # "play"
    /\ lobby' = [lobby EXCEPT !.state = "load", !.session = TRUE]
    /\ UNCHANGED <<redis, registry, game, channels, failures>>

ReLogin ==
    /\ lobby.state = "play"
    /\ lobby' = [lobby EXCEPT !.session = TRUE]
    /\ Tell(lobby.cur, Msg("net_on"))
    /\ UNCHANGED <<redis, registry, game, open, toLobby, failures>>

OnGetAllData ==
    /\ lobby.state = "load"
    /\ lobby' = [lobby EXCEPT !.state = "play", !.cur = CurSvrID(redis)]
    /\ redis' = CurSvrID(redis)
    /\ Tell(CurSvrID(redis), Msg("net_on"))
    /\ UNCHANGED <<registry, game, open, toLobby, failures>>

(* The client's socket is destroyed.                                       *)
ClientGone ==
    /\ lobby.session
    /\ lobby' = [lobby EXCEPT !.session = FALSE]
    /\ Tell(lobby.cur, Msg("net_off"))
    /\ UNCHANGED <<redis, registry, game, open, toLobby, failures>>

(* CPlayer::NeedRecover.                                                   *)
NeedRecover ==
    \/ lobby.state = "load"
    \/ lobby.state = "play" /\ lobby.cur = NoSvr /\ ~lobby.session

CheckRecoverPlayer ==
    /\ NeedRecover
    /\ lobby' = Absent
    /\ SendMsg2Server(lobby.cur, Msg("net_off"))
    /\ UNCHANGED <<redis, registry, game, open, toLobby, failures>>

(* CPlayer::EnterGameSvr for a player whose current server is cur.         *)
EnterGameSvr(cur, t) ==
    \/ /\ cur \notin {NoSvr, t}
       /\ UNCHANGED <<lobby, redis, toGame>>
    \/ /\ cur \in {NoSvr, t}
       /\ svrs[t] = NoHandle \/ t \in repair
       /\ lobby' = [lobby EXCEPT !.cur = NoSvr]
       /\ redis' = NoSvr
       /\ UNCHANGED toGame
    \/ /\ cur \in {NoSvr, t}
       /\ svrs[t] # NoHandle /\ t \notin repair
       /\ lobby' = [lobby EXCEPT !.cur = t]
       /\ SendMsg2Server(t, Msg("enter"))
       /\ UNCHANGED redis

ClientEnters(t) ==
    /\ lobby.state = "play" /\ lobby.session
    /\ Room(t)
    /\ EnterGameSvr(lobby.cur, t)
    /\ UNCHANGED <<registry, game, open, toLobby, failures>>

(* Back to the lobby, or to another server: routed to the current one.     *)
ClientAsks(m) ==
    /\ lobby.state = "play" /\ lobby.session
    /\ Tell(lobby.cur, m)
    /\ UNCHANGED <<lobby, redis, registry, game, open, toLobby, failures>>

-----------------------------------------------------------------------------
(* The lobby: game servers.                                                *)

AddServerReplaces(s, h) ==      \* fault: neither checks the players nor keeps the old entry
    /\ svrs' = [svrs EXCEPT ![s] = h]
    /\ UNCHANGED <<lobby, redis, repair, toGame>>

(* handle_msg_register_svr.  The players' places are read again before the *)
(* server is inserted, and an entry that is still there stays.             *)
AddServer(s, h) ==
    /\ IF Exists /\ lobby.cur = s THEN SetCurSvrID(redis) ELSE UNCHANGED <<lobby, redis>>
    /\ IF svrs[s] = NoHandle
       THEN svrs' = [svrs EXCEPT ![s] = h] /\ UNCHANGED toGame
       ELSE UNCHANGED svrs /\ SendOn(s, h, Msg("refused"))
    /\ UNCHANGED repair

(* handle_msg_leave_svr.                                                   *)
LeaveSvr(t) ==
    /\ \/ /\ Exists /\ t # NoSvr
          /\ EnterGameSvr(NoSvr, t)
       \/ /\ Exists /\ t = NoSvr
          /\ lobby' = [lobby EXCEPT !.cur = NoSvr]
          /\ UNCHANGED <<redis, toGame>>
       \/ /\ ~Exists
          /\ redis' = NoSvr
          /\ UNCHANGED <<lobby, toGame>>
    /\ UNCHANGED registry

(* route_to_client and handle_msg_notify_change_account_data: a server is  *)
(* told if its player is not here.                                         *)
NotifyLeaveState(s, h, known) ==
    /\ IF known THEN UNCHANGED toGame ELSE SendOn(s, h, Msg("net_off"))
    /\ UNCHANGED <<lobby, redis, registry>>

LobbyReceives(s, h) ==
    /\ <<s, h>> \in open
    /\ toLobby[<<s, h>>] # <<>>
    /\ LET m == Head(toLobby[<<s, h>>])
       IN  \/ m.kind = "register" /\ AddServer(s, h)
           \/ m.kind = "leave" /\ LeaveSvr(m.goto)
           \/ m.kind = "change" /\ NotifyLeaveState(s, h, lobby.state = "play")
           \/ m.kind = "route" /\ NotifyLeaveState(s, h, Exists)
    /\ toLobby' = [toLobby EXCEPT ![<<s, h>>] = Tail(@)]
    /\ UNCHANGED <<game, open, failures>>

(* CServerMgr::CheckRepairServer.                                          *)
CheckRepairServer(s) ==
    /\ s \in Maintained \ repair
    /\ svrs[s] # NoHandle
    /\ repair' = repair \cup {s}
    /\ SendOn(s, svrs[s], Msg("stop"))
    /\ UNCHANGED <<lobby, redis, svrs, game, open, toLobby, failures>>

(* ServerHandle::DestroyObj: the lobby notices that a connection is closed *)
(* or broken, or hears nothing on it for too long.                         *)
DestroyObj(s, h) ==
    /\ <<s, h>> \in open
    /\ IF game[s].fd = h THEN Fails ELSE UNCHANGED failures
    /\ open' = open \ {<<s, h>>}
    /\ toLobby' = [toLobby EXCEPT ![<<s, h>>] = <<>>]
    /\ IF svrs[s] = h
       THEN svrs' = [svrs EXCEPT ![s] = NoHandle] /\ repair' = repair \ {s}
       ELSE UNCHANGED registry
    /\ UNCHANGED <<lobby, redis, game, toGame>>

LobbyCrash ==
    /\ Fails
    /\ lobby' = Absent
    /\ svrs' = [s \in Server |-> NoHandle]
    /\ repair' = {}
    /\ open' = {}
    /\ toLobby' = [c \in Server \X Handle |-> <<>>]
    /\ UNCHANGED <<redis, game, toGame>>

-----------------------------------------------------------------------------
(* The game servers.                                                       *)

Closed(s) ==
    IF game[s].fd = NoHandle
    THEN toGame
    ELSE [toGame EXCEPT ![<<s, game[s].fd>>] = <<>>]

(* CLobbyNetObj::OnClose.                                                  *)
OnClose(s) ==
    /\ game[s].fd # NoHandle
    /\ IF <<s, game[s].fd>> \in open THEN Fails ELSE UNCHANGED failures
    /\ game' = [game EXCEPT ![s].fd = NoHandle, ![s].run = FALSE]
    /\ toGame' = Closed(s)
    /\ UNCHANGED <<lobby, redis, registry, open, toLobby>>

(* The timer of CLobbyMgr: a new connection, and register on it.           *)
ReConnect(s) ==
    /\ game[s].up /\ ~game[s].run
    /\ \E h \in Handle :
         /\ Free(s, h)
         /\ game' = [game EXCEPT ![s].fd = h, ![s].run = TRUE]
         /\ open' = open \cup {<<s, h>>}
         /\ toLobby' = [toLobby EXCEPT ![<<s, h>>] = <<Msg("register")>>]
    /\ toGame' = Closed(s)
    /\ UNCHANGED <<lobby, redis, registry, failures>>

(* The server goes on as g, and sends m.                                   *)
Sends(s, g, m) ==
    \E h \in Handle :
      /\ SendMsg2Client(s, h, m)
      /\ game' = [game EXCEPT ![s] = [g EXCEPT !.fd = h]]

Becomes(s, g) ==
    /\ game' = [game EXCEPT ![s] = g]
    /\ UNCHANGED <<redis, open, toLobby>>

LogoutKeepsRedis(s, t) ==       \* fault: redis still names the server
    /\ Sends(s, [game[s] EXCEPT !.here = "out"], Goto("leave", t))
    /\ UNCHANGED redis

(* CGamePlayer::OnLoginOut and the answer to the client after it.          *)
OnLoginOut(s, t) ==
    /\ redis' = NoSvr
    /\ Sends(s, [game[s] EXCEPT !.here = "out"], Goto("leave", t))

(* handle_msg_enter_svr: a new copy, or ReLogin of the one it has.         *)
EnterSvr(s) ==
    /\ redis' = s
    /\ game' = [game EXCEPT ![s].here = "on"]
    /\ UNCHANGED <<open, toLobby>>

(* handle_msg_back_lobby, handle_msg_goto_svr.                             *)
BackLobby(s, t) ==
    \/ /\ Here(s) /\ ~game[s].busy
       /\ OnLoginOut(s, t)
    \/ /\ ~Here(s) \/ game[s].busy
       /\ Becomes(s, game[s])

(* handle_msg_notify_net_state.  In a round everybody at the table is told *)
(* (OnActionUserNetState): one or two messages, which the lobby answers    *)
(* alike, are one here.                                                    *)
SetNetState(s, state) ==
    \/ /\ game[s].busy
       /\ Sends(s, [game[s] EXCEPT !.here = state], Msg("route"))
       /\ UNCHANGED redis
    \/ /\ ~game[s].busy
       /\ Becomes(s, IF Here(s) THEN [game[s] EXCEPT !.here = state] ELSE game[s])

GameReceives(s) ==
    /\ game[s].fd # NoHandle
    /\ toGame[<<s, game[s].fd>>] # <<>>
    /\ LET m == Head(toGame[<<s, game[s].fd>>])
       IN  \/ m.kind = "refused" /\ Becomes(s, [game[s] EXCEPT !.run = FALSE])
           \/ m.kind = "enter" /\ EnterSvr(s)
           \/ m.kind = "net_on" /\ SetNetState(s, "on")
           \/ m.kind = "net_off" /\ SetNetState(s, "off")
           \/ m.kind = "stop" /\ Becomes(s, [game[s] EXCEPT !.stopped = TRUE])
           \/ m.kind \in {"back_lobby", "goto_svr"} /\ BackLobby(s, m.goto)
    /\ toGame' = [toGame EXCEPT ![<<s, game[s].fd>>] = Tail(@)]
    /\ UNCHANGED <<lobby, registry, failures>>

(* A round of a game, which its player may not leave.                      *)
StartGame(s) ==
    /\ Here(s) /\ ~game[s].busy
    /\ Room(s)
    /\ Sends(s, [game[s] EXCEPT !.busy = TRUE], Msg("route"))
    /\ UNCHANGED <<lobby, redis, registry, toGame, failures>>

OnGameEnd(s) ==
    /\ game[s].busy
    /\ \A h \in Handle : Len(toLobby[<<s, h>>]) < MaxChannel
    /\ Sends(s, [game[s] EXCEPT !.busy = FALSE], Msg("change"))
    /\ UNCHANGED <<lobby, redis, registry, toGame, failures>>

SilentStaysOnline(s) ==         \* fault: only the lobby says who is offline
    /\ game[s].here = "on" /\ ~game[s].busy
    /\ Becomes(s, game[s])
    /\ UNCHANGED <<lobby, registry, toGame, failures>>

(* CGamePlayer::OnTimeTick: no message for an hour.                        *)
HeartTimeout(s) ==
    /\ game[s].here = "on" /\ ~game[s].busy
    /\ Becomes(s, [game[s] EXCEPT !.here = "off"])
    /\ UNCHANGED <<lobby, registry, toGame, failures>>

RecoverPlaying(s) ==            \* fault: a round is no reason to wait
    /\ Here(s)
    /\ game[s].here = "off" \/ game[s].stopped
    /\ OnLoginOut(s, NoSvr)
    /\ UNCHANGED <<lobby, registry, toGame, failures>>

(* CPlayerMgr::CheckRecoverPlayer in the game server.                      *)
RecoverCopy(s) ==
    /\ Here(s) /\ ~game[s].busy
    /\ game[s].here = "off" \/ game[s].stopped
    /\ OnLoginOut(s, NoSvr)
    /\ UNCHANGED <<lobby, registry, toGame, failures>>

Crash(s) ==
    /\ game[s].up
    /\ Fails
    /\ game' = [game EXCEPT ![s] = Down]
    /\ toGame' = Closed(s)
    /\ UNCHANGED <<lobby, redis, registry, open, toLobby>>

RestartKeepsRedis(s) ==         \* fault: redis is not cleared
    /\ ~game[s].up
    /\ game' = [game EXCEPT ![s].up = TRUE]
    /\ UNCHANGED <<lobby, redis, registry, channels, failures>>

(* GameServerInit, which ends with ClearPlayerOnlineSvrID.                 *)
Restart(s) ==
    /\ ~game[s].up
    /\ game' = [game EXCEPT ![s].up = TRUE]
    /\ redis' = IF redis = s THEN NoSvr ELSE redis
    /\ UNCHANGED <<lobby, registry, channels, failures>>

-----------------------------------------------------------------------------
Next ==
    \/ Login \/ ReLogin \/ OnGetAllData \/ ClientGone \/ CheckRecoverPlayer
    \/ ClientAsks(Msg("back_lobby")) \/ LobbyCrash
    \/ \E s \in Server :
         \/ ClientEnters(s) \/ ClientAsks(Goto("goto_svr", s)) \/ CheckRepairServer(s)
         \/ OnClose(s) \/ ReConnect(s) \/ GameReceives(s)
         \/ StartGame(s) \/ OnGameEnd(s) \/ HeartTimeout(s) \/ RecoverCopy(s)
         \/ Crash(s) \/ Restart(s)
         \/ \E h \in Handle : LobbyReceives(s, h) \/ DestroyObj(s, h)

Spec == Init /\ [][Next]_vars

(* What the servers do by themselves: they read what arrives, notice a     *)
(* connection whose other end is closed, restart; their timers run, and    *)
(* games end.  Strong where the bound or a busy player may disable it.     *)
DestroyClosed(s, h) == game[s].fd # h /\ DestroyObj(s, h)
CloseClosed(s) == <<s, game[s].fd>> \notin open /\ OnClose(s)
SilentTimeout(s) == (lobby.cur # s \/ ~lobby.session) /\ HeartTimeout(s)

Fairness ==
    /\ WF_vars(OnGetAllData) /\ WF_vars(CheckRecoverPlayer)
    /\ \A s \in Server :
         /\ WF_vars(CloseClosed(s)) /\ WF_vars(ReConnect(s)) /\ WF_vars(GameReceives(s))
         /\ WF_vars(Restart(s))
         /\ SF_vars(OnGameEnd(s)) /\ SF_vars(SilentTimeout(s)) /\ SF_vars(RecoverCopy(s))
         /\ \A h \in Handle : WF_vars(LobbyReceives(s, h)) /\ WF_vars(DestroyClosed(s, h))

FairSpec == Spec /\ Fairness

-----------------------------------------------------------------------------
(* Lobby and game server both use the connection the server is registered  *)
(* on.                                                                     *)
Attached(s) ==
    /\ svrs[s] # NoHandle
    /\ game[s].fd = svrs[s]
    /\ <<s, svrs[s]>> \in open

Coming(queue, kind) == \E i \in 1 .. Len(queue) : queue[i].kind = kind

(* The lobby does not route a player into the void: the server it takes    *)
(* for the current one has the player, or is about to get it or to say it  *)
(* has gone, or has to register once more, which puts it right.            *)
Routed ==
    LET s == lobby.cur
    IN  s # NoSvr /\ Attached(s)
          => \/ Here(s)
             \/ Coming(toGame[<<s, svrs[s]>>], "enter")
             \/ Coming(toLobby[<<s, svrs[s]>>], "leave")

(* Redis names no server that runs and has not got the player: a player    *)
(* that logs in is sent to a game only if there is one.                    *)
RedisTruthful == \A s \in Server : redis = s => Here(s) \/ ~game[s].up

(* What the design document says of a game server that connects again:     *)
(* the players' places are not cleared (AddServer), those the server has   *)
(* and redis knows of in any case.                                         *)
ReconnectKeepsPlace ==
    [][\A s \in Server :
         svrs[s] = NoHandle /\ svrs'[s] # NoHandle /\ lobby.cur = s /\ redis = s /\ Here(s)
           => lobby'.cur = s]_vars

(* A player the lobby takes for being in a server is there in the end, or  *)
(* the lobby learns better, whatever was lost on the way.                  *)
PlaceRight ==
    \A s \in Server : (lobby.cur = s /\ ~Here(s)) ~> (lobby.cur # s \/ Here(s))

(* A copy the lobby does not route to any more does not stay for ever: it  *)
(* is given up, or the player comes back to it.                            *)
CopyReclaimed ==
    \A s \in Server : (Here(s) /\ lobby.cur # s) ~> (~Here(s) \/ lobby.cur = s)

(* A player whose client does not come back is forgotten everywhere.       *)
Forgotten ==
    <>[]~lobby.session => <>[](lobby.state = "none" /\ \A s \in Server : ~Here(s))
=============================================================================
