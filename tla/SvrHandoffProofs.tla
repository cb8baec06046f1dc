------------------------- MODULE SvrHandoffProofs --------------------------
(***************************************************************************)
(* Proofs about SvrHandoff: it is well typed, redis names no running       *)
(* server that has not got the player, and the lobby does not route the    *)
(* player into the void.  First what each helper keeps, then one step for  *)
(* each action; the last part is the induction for Routed.                 *)
(***************************************************************************)
EXTENDS SvrHandoff, TLAPS

(* The inductive invariant: each half is inductive with the types.         *)
IInv == TypeOK /\ RedisTruthful

(* The variables a lemma is about, well typed after the step.              *)
LobbyTyped ==
    /\ lobby \in Lobby
    /\ svrs \in [Server -> Handle \cup {NoHandle}]
    /\ repair \subseteq {s \in Server : svrs[s] # NoHandle}
GameTyped ==
    /\ game \in [Server -> Game]
    /\ \A s \in Server : ~Here(s) => ~game[s].busy
ToGameTyped == toGame \in [Server \X Handle -> Seq(ToGame)]
ToLobbyTyped ==
    /\ open \subseteq Server \X Handle
    /\ toLobby \in [Server \X Handle -> Seq(ToLobby)]
RedisRight == redis \in Place /\ RedisTruthful
FailuresTyped == failures \in 0 .. MaxFailures

LEMMA Parts ==
    /\ IInv <=> /\ LobbyTyped /\ GameTyped /\ ToGameTyped
                /\ ToLobbyTyped /\ RedisRight /\ FailuresTyped
    /\ IInv' <=> /\ LobbyTyped' /\ GameTyped' /\ ToGameTyped'
                 /\ ToLobbyTyped' /\ RedisRight' /\ FailuresTyped'
BY DEF IInv, TypeOK, LobbyTyped, GameTyped, ToGameTyped, ToLobbyTyped, RedisRight,
       FailuresTyped

-----------------------------------------------------------------------------
(* Messages.                                                               *)

(* What the two kinds of messages are made of.                             *)
LEMMA Messages ==
    /\ \A k \in {"refused", "enter", "net_off", "net_on", "stop", "back_lobby"} :
         Msg(k) \in ToGame
    /\ \A t \in Server : Goto("goto_svr", t) \in ToGame
    /\ \A k \in {"register", "change", "route"} : Msg(k) \in ToLobby
    /\ \A t \in Place : Goto("leave", t) \in ToLobby
BY DEF Msg, Goto, ToGame, ToLobby

(* SendOn, SendMsg2Server: one message more for the game server, or none.  *)
LEMMA Sent ==
    ASSUME ToGameTyped, NEW m \in ToGame, NEW t, NEW s \in Server, NEW h \in Handle,
           \/ UNCHANGED toGame
           \/ SendOn(s, h, m)
           \/ svrs \in [Server -> Handle \cup {NoHandle}] /\ SendMsg2Server(t, m)
    PROVE  ToGameTyped'
<1> DEFINE OneMore(c) == toGame' = [toGame EXCEPT ![c] = Append(@, m)]
<1>1. \/ UNCHANGED toGame
      \/ \E c \in Server \X Handle : OneMore(c)
  BY DEF SendOn, SendMsg2Server
<1>2. ASSUME NEW c \in Server \X Handle, OneMore(c) PROVE ToGameTyped'
  <2>1. Append(toGame[c], m) \in Seq(ToGame)
    BY DEF ToGameTyped
  <2> QED BY <1>2, <2>1 DEF ToGameTyped
<1> QED BY <1>1, <1>2 DEF ToGameTyped

(* SendMsg2Client: the connection it goes on, and one message more on it.  *)
LEMMA Answered ==
    ASSUME ToLobbyTyped, NEW m \in ToLobby, NEW s \in Server, NEW h \in Handle,
           SendMsg2Client(s, h, m)
    PROVE  ToLobbyTyped'
<1>1. open' \subseteq Server \X Handle
  BY DEF SendMsg2Client, ToLobbyTyped
<1>2. Append(toLobby[<<s, h>>], m) \in Seq(ToLobby)
  BY DEF ToLobbyTyped
<1> QED BY <1>1, <1>2 DEF SendMsg2Client, ToLobbyTyped

(* A connection that is closed loses what was on the way.                  *)
LEMMA ClosedTyped ==
    ASSUME ToGameTyped, GameTyped, NEW s \in Server, toGame' = Closed(s)
    PROVE  ToGameTyped'
<1>1. <<>> \in Seq(ToGame)
  OBVIOUS
<1> QED BY <1>1 DEF ToGameTyped, GameTyped, Closed

-----------------------------------------------------------------------------
(* The lobby only ever clears redis, and changes no game server.           *)
LEMMA LobbyClears ==
    ASSUME GameTyped, RedisRight, UNCHANGED game, redis' \in {redis, NoSvr}
    PROVE  GameTyped' /\ RedisRight'
<1>1. GameTyped'
  BY DEF GameTyped, Here
<1>2. RedisRight'
  BY HandoffAssumption DEF RedisRight, RedisTruthful, Place, Here
<1> QED BY <1>1, <1>2

(* A game server goes on as g: it keeps what it has of the player, or      *)
(* clears redis, or has the player and says so there.                      *)
LEMMA ServerGoesOn ==
    ASSUME GameTyped, RedisRight, NEW s \in Server, NEW g \in Game,
           game' = [game EXCEPT ![s] = g],
           g.here = "out" => ~g.busy,
           \/ redis' = redis /\ (Here(s) \/ ~game[s].up => g.here # "out" \/ ~g.up)
           \/ redis' = NoSvr
           \/ redis' = s /\ g.here # "out"
    PROVE  GameTyped' /\ RedisRight'
<1>1. GameTyped'
  BY DEF GameTyped, Here
<1>2. RedisRight'
  BY HandoffAssumption DEF RedisRight, RedisTruthful, GameTyped, Place, Here
<1> QED BY <1>1, <1>2

(* CPlayer::SetCurSvrID, EnterGameSvr.                                     *)
LEMMA CurSvrIDPlace ==
    ASSUME NEW t \in Place
    PROVE  CurSvrID(t) \in {t, NoSvr} /\ CurSvrID(t) \in Place
BY DEF CurSvrID, Place

(* The lobby's player object, changed.                                     *)
LEMMA LobbyFields ==
    ASSUME lobby \in Lobby
    PROVE  /\ lobby.session \in BOOLEAN /\ lobby.cur \in Place
           /\ lobby.state \in {"none", "load", "play"}
           /\ lobby.state = "none" => lobby = Absent
<1> DEFINE Objects == [state : {"load", "play"}, session : BOOLEAN, cur : Place]
<1>1. CASE lobby \in Objects
  BY <1>1
<1>2. CASE lobby = Absent
  BY <1>2 DEF Absent, Place
<1> QED BY <1>1, <1>2 DEF Lobby

LEMMA WithCur ==
    ASSUME lobby \in Lobby, lobby.state # "none", NEW t \in Place
    PROVE  [lobby EXCEPT !.cur = t] \in Lobby
BY DEF Lobby, Absent

LEMMA WithSession ==
    ASSUME lobby \in Lobby, lobby.state # "none", NEW b \in BOOLEAN
    PROVE  [lobby EXCEPT !.session = b] \in Lobby
BY DEF Lobby, Absent

LEMMA Loading ==
    ASSUME lobby \in Lobby
    PROVE  [lobby EXCEPT !.state = "load", !.session = TRUE] \in Lobby
<1> DEFINE Objects == [state : {"load", "play"}, session : BOOLEAN, cur : Place]
<1>1. CASE lobby \in Objects
  <2>1. [lobby EXCEPT !.state = "load", !.session = TRUE] \in Objects
    BY <1>1
  <2> QED BY <2>1 DEF Lobby
<1>2. CASE lobby = Absent
  <2>1. NoSvr \in Place
    BY DEF Place
  <2>2. lobby \in [state : {"none"}, session : {FALSE}, cur : {NoSvr}]
    BY <1>2 DEF Absent
  <2>3. [lobby EXCEPT !.state = "load", !.session = TRUE] \in Objects
    BY <2>1, <2>2
  <2> QED BY <2>3 DEF Lobby
<1> QED BY <1>1, <1>2 DEF Lobby

LEMMA Loaded ==
    ASSUME lobby \in Lobby, lobby.state = "load", NEW t \in Place
    PROVE  [lobby EXCEPT !.state = "play", !.cur = t] \in Lobby
<1> DEFINE Objects == [state : {"load", "play"}, session : BOOLEAN, cur : Place]
<1>1. lobby \in Objects
  BY DEF Lobby, Absent
<1>2. [lobby EXCEPT !.state = "play", !.cur = t] \in Objects
  BY <1>1
<1> QED BY <1>2 DEF Lobby

-----------------------------------------------------------------------------
(* The lobby: clients.                                                     *)

(* A client's message to the server t, by Tell.                            *)
LEMMA Told ==
    ASSUME IInv, NEW m \in ToGame, NEW t, Tell(t, m)
    PROVE  ToGameTyped'
<1>1. Server # {} /\ Handle # {} => ToGameTyped'
  BY Sent, Parts DEF Tell, LobbyTyped
<1>2. Server = {} \/ Handle = {} => UNCHANGED toGame
  BY Parts, HandoffAssumption DEF Tell, SendMsg2Server, LobbyTyped, ToGameTyped
<1> QED BY <1>1, <1>2, Parts DEF ToGameTyped

LEMMA EnterGameSvrTyped ==
    ASSUME IInv, lobby.state # "none", NEW t \in Server, NEW cur \in Place,
           EnterGameSvr(cur, t)
    PROVE  lobby' \in Lobby /\ redis' \in {redis, NoSvr} /\ ToGameTyped'
<1>1. Msg("enter") \in ToGame
  BY Messages
<1>2. lobby' \in Lobby
  BY Parts, WithCur DEF EnterGameSvr, LobbyTyped, Place
<1>3. redis' \in {redis, NoSvr}
  BY DEF EnterGameSvr
<1>4. \/ UNCHANGED toGame
      \/ SendMsg2Server(t, Msg("enter"))
  BY DEF EnterGameSvr
<1>5. ToGameTyped'
  <2>1. CASE Handle = {}
    BY <1>4, <2>1, Parts, HandoffAssumption DEF SendMsg2Server, LobbyTyped, ToGameTyped
  <2>2. CASE Handle # {}
    BY <1>1, <1>4, <2>2, Parts, Sent DEF LobbyTyped
  <2> QED BY <2>1, <2>2
<1> QED BY <1>2, <1>3, <1>5

(* Login .. ClientAsks: the steps clients and timers of the lobby start.   *)
LobbyStep ==
    \/ Login \/ ReLogin \/ OnGetAllData \/ ClientGone \/ CheckRecoverPlayer
    \/ ClientAsks(Msg("back_lobby"))
    \/ \E s \in Server : ClientEnters(s) \/ ClientAsks(Goto("goto_svr", s))

LEMMA ClientSteps ==
    ASSUME IInv, LobbyStep
    PROVE  IInv'
<1> USE Parts
<1>1. UNCHANGED <<registry, game, open, toLobby, failures>>
  BY DEF LobbyStep, Login, ReLogin, OnGetAllData, ClientGone, CheckRecoverPlayer,
         ClientAsks, ClientEnters, channels
<1>2. lobby' \in Lobby /\ redis' \in {redis, NoSvr} /\ ToGameTyped'
  <2>1. Msg("net_on") \in ToGame /\ Msg("net_off") \in ToGame /\ Msg("back_lobby") \in ToGame
        /\ \A s \in Server : Goto("goto_svr", s) \in ToGame
    BY Messages
  <2>2. CASE Login
    BY <2>2, Loading DEF Login, channels, LobbyTyped, ToGameTyped
  <2>3. CASE ReLogin
    BY <2>1, <2>3, Told, WithSession DEF ReLogin, LobbyTyped
  <2>4. CASE OnGetAllData
    <3>1. CurSvrID(redis) \in {redis, NoSvr} /\ CurSvrID(redis) \in Place
      BY CurSvrIDPlace DEF RedisRight
    <3>2. lobby' \in Lobby
      BY <2>4, <3>1, Loaded DEF OnGetAllData, LobbyTyped
    <3> QED BY <2>1, <2>4, <3>1, <3>2, Told DEF OnGetAllData
  <2>5. CASE ClientGone
    <3>1. lobby.state # "none"
      BY <2>5, LobbyFields DEF ClientGone, LobbyTyped, Absent
    <3> QED BY <2>1, <2>5, <3>1, Told, WithSession DEF ClientGone, LobbyTyped
  <2>6. CASE CheckRecoverPlayer
    <3>1. Handle = {} => UNCHANGED toGame
      BY <2>6, HandoffAssumption DEF CheckRecoverPlayer, SendMsg2Server, LobbyTyped
    <3>2. Server = {} => UNCHANGED toGame
      BY <2>6 DEF CheckRecoverPlayer, SendMsg2Server
    <3>3. ToGameTyped'
      BY <2>1, <2>6, <3>1, <3>2, Sent DEF CheckRecoverPlayer, LobbyTyped, ToGameTyped
    <3> QED BY <2>6, <3>3 DEF CheckRecoverPlayer, Lobby, Absent, Place
  <2>7. ASSUME NEW m \in ToGame, ClientAsks(m)
        PROVE  lobby' \in Lobby /\ redis' \in {redis, NoSvr} /\ ToGameTyped'
    BY <2>7, Told DEF ClientAsks, LobbyTyped
  <2>8. CASE \E s \in Server : ClientEnters(s)
    <3>1. lobby.state = "play" => lobby.cur \in Place
      BY LobbyFields DEF LobbyTyped
    <3> QED BY <2>8, <3>1, EnterGameSvrTyped DEF ClientEnters
  <2> QED BY <2>1, <2>2, <2>3, <2>4, <2>5, <2>6, <2>7, <2>8 DEF LobbyStep
<1>3. GameTyped' /\ RedisRight'
  BY <1>1, <1>2, LobbyClears
<1>4. LobbyTyped' /\ ToLobbyTyped' /\ FailuresTyped'
  BY <1>1, <1>2 DEF registry, LobbyTyped, ToLobbyTyped, FailuresTyped
<1> QED BY <1>2, <1>3, <1>4

-----------------------------------------------------------------------------
(* The lobby: game servers.                                                *)

(* LobbyReceives: a message is taken off, and what it says is done.        *)
LEMMA ReceivesStep ==
    ASSUME IInv, NEW s \in Server, NEW h \in Handle, LobbyReceives(s, h)
    PROVE  IInv'
<1> USE Parts
<1> DEFINE m == Head(toLobby[<<s, h>>])
<1>1. UNCHANGED <<game, open, failures>>
  BY DEF LobbyReceives
<1>2. m \in ToLobby /\ Tail(toLobby[<<s, h>>]) \in Seq(ToLobby)
  BY DEF LobbyReceives, ToLobbyTyped
<1>3. ToLobbyTyped'
  BY <1>1, <1>2 DEF LobbyReceives, ToLobbyTyped
<1>4. LobbyTyped' /\ redis' \in {redis, NoSvr} /\ ToGameTyped'
  <2>1. CASE AddServer(s, h)
    <3>1. lobby' \in Lobby /\ redis' \in {redis, NoSvr}
      <4>1. CurSvrID(redis) \in Place
        BY CurSvrIDPlace DEF RedisRight
      <4> QED BY <2>1, <4>1, WithCur DEF AddServer, SetCurSvrID, Exists, LobbyTyped
    <3>2. svrs' \in [Server -> Handle \cup {NoHandle}]
      BY <2>1 DEF AddServer, LobbyTyped
    <3>3. repair' \subseteq {x \in Server : svrs'[x] # NoHandle}
      BY <2>1, HandoffAssumption DEF AddServer, LobbyTyped
    <3>4. Msg("refused") \in ToGame
      BY Messages
    <3>5. ToGameTyped'
      BY <2>1, <3>4, Sent DEF AddServer
    <3> QED BY <3>1, <3>2, <3>3, <3>5 DEF LobbyTyped
  <2>2. CASE LeaveSvr(m.goto) /\ m.kind = "leave"
    <3>1. m.goto \in Place
      BY <1>2 DEF ToLobby, Place
    <3>2. CASE Exists /\ m.goto # NoSvr
      <4>1. m.goto \in Server /\ NoSvr \in Place
        BY <3>1, <3>2 DEF Place
      <4>2. EnterGameSvr(NoSvr, m.goto) /\ UNCHANGED registry
        BY <2>2, <3>2 DEF LeaveSvr
      <4> QED BY <3>2, <4>1, <4>2, EnterGameSvrTyped DEF Exists, registry, LobbyTyped
    <3>3. CASE Exists /\ m.goto = NoSvr
      <4>1. NoSvr \in Place
        BY DEF Place
      <4> QED BY <2>2, <3>3, <4>1, WithCur
            DEF LeaveSvr, Exists, registry, LobbyTyped, ToGameTyped
    <3>4. CASE ~Exists
      BY <2>2, <3>4 DEF LeaveSvr, registry, LobbyTyped, ToGameTyped
    <3> QED BY <3>2, <3>3, <3>4
  <2>3. ASSUME NEW known, NotifyLeaveState(s, h, known)
        PROVE  LobbyTyped' /\ redis' \in {redis, NoSvr} /\ ToGameTyped'
    <3>1. Msg("net_off") \in ToGame
      BY Messages
    <3> QED BY <2>3, <3>1, Sent DEF NotifyLeaveState, registry, LobbyTyped
  <2> QED BY <2>1, <2>2, <2>3 DEF LobbyReceives
<1>5. GameTyped' /\ RedisRight'
  BY <1>1, <1>4, LobbyClears
<1> QED BY <1>1, <1>3, <1>4, <1>5 DEF FailuresTyped

LEMMA RepairStep ==
    ASSUME IInv, NEW s \in Server, CheckRepairServer(s)
    PROVE  IInv'
<1> USE Parts
<1>1. svrs[s] \in Handle
  BY DEF CheckRepairServer, LobbyTyped
<1>2. LobbyTyped'
  BY DEF CheckRepairServer, LobbyTyped
<1>3. Msg("stop") \in ToGame
  BY Messages
<1>4. ToGameTyped'
  BY <1>1, <1>3, Sent DEF CheckRepairServer
<1>5. GameTyped' /\ RedisRight'
  BY LobbyClears DEF CheckRepairServer
<1> QED BY <1>2, <1>4, <1>5 DEF CheckRepairServer, ToLobbyTyped, FailuresTyped

(* What can break, once more.                                              *)
LEMMA FailsTyped ==
    ASSUME FailuresTyped, Fails \/ UNCHANGED failures
    PROVE  FailuresTyped'
BY HandoffAssumption DEF FailuresTyped, Fails

LEMMA DestroyStep ==
    ASSUME IInv, NEW s \in Server, NEW h \in Handle, DestroyObj(s, h)
    PROVE  IInv'
<1> USE Parts
<1>1. FailuresTyped'
  BY FailsTyped DEF DestroyObj
<1>2. <<>> \in Seq(ToLobby)
  OBVIOUS
<1>3. ToLobbyTyped'
  BY <1>2 DEF DestroyObj, ToLobbyTyped
<1>4. LobbyTyped'
  BY DEF DestroyObj, LobbyTyped, registry
<1>5. GameTyped' /\ RedisRight'
  BY LobbyClears DEF DestroyObj
<1> QED BY <1>1, <1>3, <1>4, <1>5 DEF DestroyObj, ToGameTyped

LEMMA LobbyCrashStep ==
    ASSUME IInv, LobbyCrash
    PROVE  IInv'
<1> USE Parts
<1>1. FailuresTyped'
  BY FailsTyped DEF LobbyCrash
<1>2. ToLobbyTyped' /\ ToGameTyped'
  <2>1. <<>> \in Seq(ToLobby)
    OBVIOUS
  <2> QED BY <2>1 DEF LobbyCrash, ToLobbyTyped, ToGameTyped
<1>3. LobbyTyped'
  BY DEF LobbyCrash, LobbyTyped, Lobby
<1>4. GameTyped' /\ RedisRight'
  BY LobbyClears DEF LobbyCrash
<1> QED BY <1>1, <1>2, <1>3, <1>4

-----------------------------------------------------------------------------
(* The game servers.                                                       *)

(* Every state of a server but Down.                                       *)
Running == [up : {TRUE}, run : BOOLEAN, fd : Handle \cup {NoHandle},
            here : {"out", "on", "off"}, busy : BOOLEAN, stopped : BOOLEAN]

LEMMA IsRunning ==
    ASSUME GameTyped, NEW s \in Server,
           game[s].up \/ game[s].fd # NoHandle \/ Here(s) \/ game[s].busy
    PROVE  game[s] \in Running
<1>1. game[s] \in Running \/ game[s] = Down
  BY DEF GameTyped, Game, Running
<1>2. game[s] # Down
  BY DEF Down, Here
<1> QED BY <1>1, <1>2

LEMMA RunningGame == Running \subseteq Game
BY DEF Running, Game

(* OnLoginOut: the player is out, and redis says so.                       *)
LEMMA LoggedOut ==
    ASSUME IInv, NEW s \in Server, NEW t \in Place, Here(s), ~game[s].busy,
           OnLoginOut(s, t)
    PROVE  GameTyped' /\ RedisRight' /\ ToLobbyTyped'
<1> USE Parts
<1>1. PICK h \in Handle : /\ SendMsg2Client(s, h, Goto("leave", t))
                          /\ game' = [game EXCEPT ![s] =
                                         [[game[s] EXCEPT !.here = "out"] EXCEPT !.fd = h]]
  BY DEF OnLoginOut, Sends
<1> DEFINE g == [[game[s] EXCEPT !.here = "out"] EXCEPT !.fd = h]
<1>2. g \in Running /\ ~g.busy
  <2>1. game[s] \in Running
    BY IsRunning
  <2> QED BY <2>1 DEF Running
<1>3. GameTyped' /\ RedisRight'
  BY <1>1, <1>2, RunningGame, ServerGoesOn DEF OnLoginOut
<1>4. ToLobbyTyped'
  BY <1>1, Messages, Answered
<1> QED BY <1>3, <1>4

(* The player stays, and something is sent.                                *)
LEMMA Speaks ==
    ASSUME IInv, NEW s \in Server, Here(s), NEW f \in Running, f.here # "out",
           NEW m \in ToLobby, Sends(s, f, m), UNCHANGED redis
    PROVE  GameTyped' /\ RedisRight' /\ ToLobbyTyped'
<1> USE Parts
<1>1. PICK h \in Handle : /\ SendMsg2Client(s, h, m)
                          /\ game' = [game EXCEPT ![s] = [f EXCEPT !.fd = h]]
  BY DEF Sends
<1> DEFINE g == [f EXCEPT !.fd = h]
<1>2. g \in Running /\ g.here # "out"
  BY DEF Running
<1>3. GameTyped' /\ RedisRight'
  BY <1>1, <1>2, RunningGame, ServerGoesOn
<1>4. ToLobbyTyped'
  BY <1>1, Answered
<1> QED BY <1>3, <1>4

LEMMA ReceivesMessage ==
    ASSUME IInv, NEW s \in Server, GameReceives(s)
    PROVE  IInv'
<1> USE Parts
<1> DEFINE m == Head(toGame[<<s, game[s].fd>>])
<1>1. UNCHANGED <<lobby, registry, failures>>
  BY DEF GameReceives
<1>2. game[s] \in Running /\ game[s].fd \in Handle
  <2>1. game[s] \in Running
    BY IsRunning DEF GameReceives
  <2> QED BY <2>1 DEF Running, GameReceives
<1>3. m \in ToGame /\ Tail(toGame[<<s, game[s].fd>>]) \in Seq(ToGame)
  BY <1>2 DEF GameReceives, ToGameTyped
<1>4. ToGameTyped'
  BY <1>2, <1>3 DEF GameReceives, ToGameTyped
<1>5. GameTyped' /\ RedisRight' /\ ToLobbyTyped'
  <2>1. ASSUME NEW g \in Running, Becomes(s, g), g.here = "out" => ~g.busy,
               Here(s) => g.here # "out"
        PROVE  GameTyped' /\ RedisRight' /\ ToLobbyTyped'
    <3>1. g.up = TRUE
      BY DEF Running
    <3>2. game[s].up = TRUE
      BY <1>2 DEF Running
    <3> QED BY <2>1, <3>1, <3>2, RunningGame, ServerGoesOn DEF Becomes, ToLobbyTyped
  <2>2. ~Here(s) => ~game[s].busy
    BY DEF GameTyped
  <2>3. CASE Becomes(s, [game[s] EXCEPT !.run = FALSE])
    <3>1. [game[s] EXCEPT !.run = FALSE] \in Running
      BY <1>2 DEF Running
    <3> QED BY <1>2, <2>1, <2>2, <2>3, <3>1 DEF Running, Here
  <2>4. CASE EnterSvr(s)
    <3> DEFINE g == [game[s] EXCEPT !.here = "on"]
    <3>1. g \in Running /\ g.here # "out"
      BY <1>2 DEF Running
    <3> QED BY <2>4, <3>1, RunningGame, ServerGoesOn DEF EnterSvr, GameTyped, ToLobbyTyped
  <2>5. ASSUME NEW state \in {"on", "off"}, SetNetState(s, state)
        PROVE  GameTyped' /\ RedisRight' /\ ToLobbyTyped'
    <3>1. [game[s] EXCEPT !.here = state] \in Running
      BY <1>2 DEF Running
    <3>2. CASE game[s].busy
      BY <2>2, <2>5, <3>1, <3>2, Messages, Speaks DEF SetNetState, Running
    <3>3. CASE ~game[s].busy
      BY <1>2, <2>1, <2>2, <2>5, <3>1, <3>3 DEF SetNetState, Running, Here
    <3> QED BY <3>2, <3>3
  <2>6. CASE Becomes(s, [game[s] EXCEPT !.stopped = TRUE])
    <3>1. [game[s] EXCEPT !.stopped = TRUE] \in Running
      BY <1>2 DEF Running
    <3> QED BY <1>2, <2>1, <2>2, <2>6, <3>1 DEF Running, Here
  <2>7. CASE BackLobby(s, m.goto)
    <3>1. m.goto \in Place
      BY <1>3 DEF ToGame, Place
    <3>2. CASE Here(s) /\ ~game[s].busy /\ OnLoginOut(s, m.goto)
      BY <3>1, <3>2, LoggedOut
    <3>3. CASE Becomes(s, game[s])
      BY <1>2, <2>1, <2>2, <3>3 DEF Here
    <3> QED BY <2>7, <3>2, <3>3 DEF BackLobby
  <2> QED BY <2>3, <2>4, <2>5, <2>6, <2>7 DEF GameReceives
<1> QED BY <1>1, <1>4, <1>5 DEF LobbyTyped, FailuresTyped, registry

LEMMA GameSteps ==
    ASSUME IInv, NEW s \in Server, StartGame(s) \/ OnGameEnd(s)
    PROVE  IInv'
<1> USE Parts
<1>1. PICK b \in BOOLEAN, m \in ToLobby : Sends(s, [game[s] EXCEPT !.busy = b], m)
  BY Messages DEF StartGame, OnGameEnd
<1>2. Here(s) /\ UNCHANGED <<lobby, redis, registry, toGame, failures>>
  BY DEF StartGame, OnGameEnd, GameTyped
<1>3. [game[s] EXCEPT !.busy = b] \in Running /\ [game[s] EXCEPT !.busy = b].here # "out"
  BY <1>2, IsRunning DEF Running, Here
<1> QED BY <1>1, <1>2, <1>3, Speaks DEF LobbyTyped, ToGameTyped, FailuresTyped, registry

(* A server goes on as g without a word: the recovery timer, the network,  *)
(* a crash, a restart.                                                     *)
LEMMA Alone ==
    ASSUME IInv, NEW s \in Server, NEW g \in Game, game' = [game EXCEPT ![s] = g],
           g.here = "out" => ~g.busy,
           \/ redis' = redis /\ (Here(s) \/ ~game[s].up => g.here # "out" \/ ~g.up)
           \/ redis' = NoSvr,
           Fails \/ UNCHANGED failures, UNCHANGED <<lobby, registry>>,
           UNCHANGED toGame \/ toGame' = Closed(s),
           ToLobbyTyped'
    PROVE  IInv'
<1> USE Parts
<1>1. GameTyped' /\ RedisRight'
  BY ServerGoesOn
<1>2. ToGameTyped'
  BY ClosedTyped DEF ToGameTyped
<1>3. FailuresTyped'
  BY FailsTyped
<1> QED BY <1>1, <1>2, <1>3 DEF LobbyTyped, registry

LEMMA CloseStep ==
    ASSUME IInv, NEW s \in Server, OnClose(s)
    PROVE  IInv'
<1> USE Parts
<1> DEFINE g == [game[s] EXCEPT !.fd = NoHandle, !.run = FALSE]
<1>1. game[s] \in Running /\ ~(~Here(s) /\ game[s].busy)
  BY IsRunning DEF OnClose, GameTyped
<1>2. g \in Running /\ g.here = game[s].here /\ g.busy = game[s].busy
  BY <1>1 DEF Running
<1>3. game' = [game EXCEPT ![s] = g]
  BY DEF OnClose, GameTyped
<1>4. ToLobbyTyped'
  BY DEF OnClose, ToLobbyTyped
<1>5. game[s].up = TRUE
  BY <1>1 DEF Running
<1>6. g \in Game
  BY <1>2, RunningGame
<1>7. toGame' = Closed(s) /\ UNCHANGED <<lobby, redis, registry>>
  BY DEF OnClose
<1>8. Fails \/ UNCHANGED failures
  BY DEF OnClose
<1> HIDE DEF g
<1> QED BY <1>1, <1>2, <1>3, <1>4, <1>5, <1>6, <1>7, <1>8, Alone DEF Here

LEMMA ReConnectStep ==
    ASSUME IInv, NEW s \in Server, ReConnect(s)
    PROVE  IInv'
<1> USE Parts
<1>1. PICK h \in Handle :
        /\ game' = [game EXCEPT ![s].fd = h, ![s].run = TRUE]
        /\ open' = open \cup {<<s, h>>}
        /\ toLobby' = [toLobby EXCEPT ![<<s, h>>] = <<Msg("register")>>]
  BY DEF ReConnect
<1> DEFINE g == [game[s] EXCEPT !.fd = h, !.run = TRUE]
<1>2. game[s] \in Running /\ ~(~Here(s) /\ game[s].busy)
  BY IsRunning DEF ReConnect, GameTyped
<1>3. g \in Running /\ g.here = game[s].here /\ g.busy = game[s].busy
  BY <1>2 DEF Running
<1>4. game' = [game EXCEPT ![s] = g]
  BY <1>1 DEF GameTyped
<1>5. <<Msg("register")>> \in Seq(ToLobby)
  BY Messages
<1>6. ToLobbyTyped'
  BY <1>1, <1>5 DEF ToLobbyTyped
<1>7. game[s].up = TRUE
  BY <1>2 DEF Running
<1>8. g \in Game
  BY <1>3, RunningGame
<1>9. toGame' = Closed(s) /\ UNCHANGED <<lobby, redis, registry, failures>>
  BY DEF ReConnect
<1> HIDE DEF g
<1> QED BY <1>2, <1>3, <1>4, <1>6, <1>7, <1>8, <1>9, Alone DEF Here

LEMMA HeartStep ==
    ASSUME IInv, NEW s \in Server, HeartTimeout(s)
    PROVE  IInv'
<1> USE Parts
<1> DEFINE g == [game[s] EXCEPT !.here = "off"]
<1>1. game[s] \in Running
  BY IsRunning DEF HeartTimeout, Here
<1>2. g \in Running /\ g.here # "out"
  BY <1>1 DEF Running
<1>3. ToLobbyTyped'
  BY DEF HeartTimeout, Becomes, ToLobbyTyped
<1>4. game' = [game EXCEPT ![s] = g] /\ UNCHANGED <<lobby, redis, registry, toGame, failures>>
  BY DEF HeartTimeout, Becomes
<1> QED BY <1>2, <1>3, <1>4, RunningGame, Alone

LEMMA RecoverStep ==
    ASSUME IInv, NEW s \in Server, RecoverCopy(s)
    PROVE  IInv'
<1> USE Parts
<1>1. GameTyped' /\ RedisRight' /\ ToLobbyTyped'
  BY LoggedOut DEF RecoverCopy, Place
<1> QED BY <1>1 DEF RecoverCopy, LobbyTyped, ToGameTyped, FailuresTyped, registry

LEMMA CrashStep ==
    ASSUME IInv, NEW s \in Server, Crash(s)
    PROVE  IInv'
<1> USE Parts
<1>1. Down \in Game /\ ~Down.up /\ ~Down.busy
  BY DEF Game, Down
<1>2. ToLobbyTyped'
  BY DEF Crash, ToLobbyTyped
<1> QED BY <1>1, <1>2, Alone DEF Crash

(* The restart clears redis if it names the server: it is the step that    *)
(* makes up for the crash, after which redis still named it.               *)
LEMMA RestartStep ==
    ASSUME IInv, NEW s \in Server, Restart(s)
    PROVE  IInv'
<1> USE Parts
<1>1. game[s] = Down
  BY DEF Restart, GameTyped, Game
<1> DEFINE g == [Down EXCEPT !.up = TRUE]
<1>2. g \in Running /\ g.here = "out" /\ ~g.busy
  BY DEF Down, Running
<1>3. game' = [game EXCEPT ![s] = g]
  BY <1>1 DEF Restart, GameTyped
<1>4. GameTyped'
  BY <1>2, <1>3, RunningGame DEF GameTyped, Here
<1>5. redis' # s /\ redis' \in Place /\ (redis' = redis \/ redis' = NoSvr)
  BY HandoffAssumption DEF Restart, RedisRight, Place
<1>6. RedisRight'
  BY <1>3, <1>5, HandoffAssumption DEF RedisRight, RedisTruthful, GameTyped, Here
<1> QED BY <1>4, <1>6
      DEF Restart, channels, registry, LobbyTyped, ToGameTyped, ToLobbyTyped, FailuresTyped

-----------------------------------------------------------------------------
LEMMA Initially == Init => IInv
<1> SUFFICES ASSUME Init PROVE IInv
  OBVIOUS
<1> DEFINE g == [Down EXCEPT !.up = TRUE]
<1>1. g \in Running /\ g.here = "out" /\ ~g.busy
  BY DEF Down, Running
<1>2. GameTyped /\ RedisRight
  BY <1>1, RunningGame, HandoffAssumption
  DEF Init, GameTyped, RedisRight, RedisTruthful, Place, Here
<1>3. LobbyTyped
  BY DEF Init, LobbyTyped, Lobby
<1>4. ToGameTyped /\ ToLobbyTyped
  <2>1. <<>> \in Seq(ToGame) /\ <<>> \in Seq(ToLobby)
    OBVIOUS
  <2> QED BY <2>1 DEF Init, ToGameTyped, ToLobbyTyped
<1>5. FailuresTyped
  BY HandoffAssumption DEF Init, FailuresTyped
<1> QED BY <1>2, <1>3, <1>4, <1>5, Parts

LEMMA Step == IInv /\ [Next]_vars => IInv'
<1> SUFFICES ASSUME IInv, [Next]_vars PROVE IInv'
  OBVIOUS
<1>1. CASE LobbyStep
  BY <1>1, ClientSteps
<1>2. CASE LobbyCrash
  BY <1>2, LobbyCrashStep
<1>3. CASE \E s \in Server : CheckRepairServer(s) \/ GameReceives(s)
  BY <1>3, RepairStep, ReceivesMessage
<1>4. CASE \E s \in Server : OnClose(s) \/ ReConnect(s) \/ HeartTimeout(s)
  BY <1>4, CloseStep, ReConnectStep, HeartStep
<1>5. CASE \E s \in Server : StartGame(s) \/ OnGameEnd(s) \/ RecoverCopy(s)
  BY <1>5, GameSteps, RecoverStep
<1>6. CASE \E s \in Server : Crash(s) \/ Restart(s)
  BY <1>6, CrashStep, RestartStep
<1>7. CASE \E s \in Server, h \in Handle : LobbyReceives(s, h) \/ DestroyObj(s, h)
  BY <1>7, ReceivesStep, DestroyStep
<1>8. CASE UNCHANGED vars
  BY <1>8, Parts DEF vars, registry, channels, LobbyTyped, GameTyped, ToGameTyped,
     ToLobbyTyped, RedisRight, RedisTruthful, FailuresTyped, Here
<1> QED BY <1>1, <1>2, <1>3, <1>4, <1>5, <1>6, <1>7, <1>8 DEF Next, LobbyStep

LEMMA Invariance == Spec => []IInv
<1> QED BY Initially, Step, PTL DEF Spec

(* The places of the player, the registry and the channels are well typed  *)
(* (CPlayer, CServerMgr, CLobbyMgr), whatever crashes or breaks.           *)
THEOREM HandoffTypeCorrect == Spec => []TypeOK
<1>1. IInv => TypeOK
  BY DEF IInv
<1> QED BY <1>1, Invariance, PTL

(* Redis names no server that runs and has not got the player              *)
(* (CGamePlayer::OnLoginOut, ClearPlayerOnlineSvrID, SetCurSvrID): a login *)
(* is never sent to a game server for nothing.                             *)
THEOREM RedisIsTruthful == Spec => []RedisTruthful
<1>1. IInv => RedisTruthful
  BY DEF IInv
<1> QED BY <1>1, Invariance, PTL

-----------------------------------------------------------------------------
(* The lobby routes to the player.  A registered server's connection is    *)
(* one the lobby has, so that a new connection is never it; and what is    *)
(* true of the player's current server is true of it under any other name. *)
RegisteredOpen == \A s \in Server : svrs[s] # NoHandle => <<s, svrs[s]>> \in open

RoutedTo(s) ==
    Attached(s) => \/ Here(s)
                   \/ Coming(toGame[<<s, svrs[s]>>], "enter")
                   \/ Coming(toLobby[<<s, svrs[s]>>], "leave")

RInv == IInv /\ RegisteredOpen /\ Routed

LEMMA ByName ==
    /\ Routed <=> (lobby.cur # NoSvr => RoutedTo(lobby.cur))
    /\ Routed' <=> (lobby'.cur # NoSvr => RoutedTo(lobby.cur)')
BY DEF Routed, RoutedTo

(* Queues.                                                                 *)
LEMMA ComingAppend ==
    ASSUME NEW S, NEW q \in Seq(S), NEW m \in S, NEW k
    PROVE  /\ Coming(q, k) => Coming(Append(q, m), k)
           /\ m.kind = k => Coming(Append(q, m), k)
<1>1. /\ Len(Append(q, m)) = Len(q) + 1
      /\ Append(q, m)[Len(q) + 1] = m
      /\ \A i \in 1 .. Len(q) : Append(q, m)[i] = q[i]
      /\ Len(q) \in Nat
  OBVIOUS
<1> QED BY <1>1 DEF Coming

LEMMA ComingTail ==
    ASSUME NEW S, NEW q \in Seq(S), NEW k, q # <<>>, Head(q).kind # k, Coming(q, k)
    PROVE  Coming(Tail(q), k)
<1>1. PICK i \in 1 .. Len(q) : q[i].kind = k
  BY DEF Coming
<1>2. i # 1
  BY <1>1
<1>3. i - 1 \in 1 .. Len(Tail(q)) /\ Tail(q)[i - 1] = q[i]
  BY <1>1, <1>2
<1> QED BY <1>1, <1>3 DEF Coming

-----------------------------------------------------------------------------
(* A server that attached is up; redis names it only if it has the player. *)
LEMMA RedisRouted ==
    /\ \A s \in Server : IInv /\ redis = s => RoutedTo(s)
    /\ \A s \in Server : IInv' /\ redis' = s => RoutedTo(s)'
<1>1. ASSUME NEW s \in Server, IInv, redis = s PROVE RoutedTo(s)
  <2>1. CASE game[s] \in Running
    BY <1>1, <2>1, Parts DEF RedisRight, RedisTruthful, RoutedTo, Running
  <2>2. CASE game[s] = Down
    BY <2>2 DEF RoutedTo, Attached, Down
  <2> QED BY <1>1, <2>1, <2>2, Parts DEF GameTyped, Game, Running
<1>2. ASSUME NEW s \in Server, IInv', redis' = s PROVE RoutedTo(s)'
  <2>1. CASE game'[s] \in Running
    BY <1>2, <2>1, Parts DEF RedisRight, RedisTruthful, RoutedTo, Running
  <2>2. CASE game'[s] = Down
    BY <2>2 DEF RoutedTo, Attached, Down
  <2> QED BY <1>2, <2>1, <2>2, Parts DEF GameTyped, Game, Running
<1> QED BY <1>1, <1>2

(* Whatever happens at another server.                                     *)
LEMMA Elsewhere ==
    ASSUME IInv, RegisteredOpen, NEW u \in Server, RoutedTo(u),
           game'[u] = game[u], svrs'[u] = svrs[u],
           \A h \in Handle : toGame'[<<u, h>>] = toGame[<<u, h>>],
           \A h \in Handle : toLobby'[<<u, h>>] = toLobby[<<u, h>>]
    PROVE  RoutedTo(u)'
<1>1. svrs[u] = NoHandle \/ svrs[u] \in Handle
  BY Parts DEF LobbyTyped
<1> QED BY <1>1 DEF RoutedTo, Attached, Here, RegisteredOpen

(* The lobby sends m to some game server.                                  *)
LEMMA SendKeeps ==
    ASSUME IInv, NEW m \in ToGame, NEW u \in Server, RoutedTo(u),
           UNCHANGED <<game, svrs, open>>,
           Coming(toLobby[<<u, svrs[u]>>], "leave")
             => Coming(toLobby'[<<u, svrs[u]>>], "leave"),
           \/ UNCHANGED toGame
           \/ \E s \in Server, h \in Handle : SendOn(s, h, m)
           \/ \E t : SendMsg2Server(t, m)
    PROVE  RoutedTo(u)'
<1> USE Parts
<1>1. SUFFICES ASSUME Attached(u), Coming(toGame[<<u, svrs[u]>>], "enter")
               PROVE  Coming(toGame'[<<u, svrs[u]>>], "enter")
  BY DEF RoutedTo, Attached, Here
<1>2. \/ UNCHANGED toGame
      \/ \E c \in Server \X Handle : toGame' = [toGame EXCEPT ![c] = Append(@, m)]
  BY DEF SendOn, SendMsg2Server, LobbyTyped
<1>3. <<u, svrs[u]>> \in Server \X Handle
  BY <1>1 DEF Attached, LobbyTyped
<1>4. toGame[<<u, svrs[u]>>] \in Seq(ToGame)
  BY <1>3 DEF ToGameTyped
<1>5. Coming(Append(toGame[<<u, svrs[u]>>], m), "enter")
  BY <1>1, <1>4, ComingAppend
<1>6. toGame'[<<u, svrs[u]>>] \in {toGame[<<u, svrs[u]>>], Append(toGame[<<u, svrs[u]>>], m)}
  BY <1>2, <1>3 DEF ToGameTyped
<1> QED BY <1>1, <1>5, <1>6

(* EnterGameSvr: a player that is sent to t is about to arrive there.      *)
LEMMA EnterRoutes ==
    ASSUME IInv, NEW t \in Server, NEW cur \in Place, EnterGameSvr(cur, t),
           lobby.state # "none", Routed, UNCHANGED <<game, svrs, open>>,
           cur = NoSvr \/ (cur = lobby.cur /\ UNCHANGED toLobby)
    PROVE  Routed'
<1> USE Parts
<1>1. CASE cur \notin {NoSvr, t}
  BY <1>1, Elsewhere DEF EnterGameSvr, Routed, Attached, Here
<1>2. CASE lobby' = [lobby EXCEPT !.cur = NoSvr]
  <2>1. lobby'.cur = NoSvr
    BY <1>2, LobbyFields DEF LobbyTyped, Lobby, Absent
  <2> QED BY <2>1 DEF Routed
<1>3. CASE /\ lobby' = [lobby EXCEPT !.cur = t]
           /\ SendMsg2Server(t, Msg("enter")) /\ svrs[t] # NoHandle
  <2>1. lobby'.cur = t
    BY <1>3, LobbyFields DEF LobbyTyped, Lobby, Absent
  <2>2. ASSUME Attached(t)' PROVE Coming(toGame'[<<t, svrs[t]>>], "enter")
    <3>1. <<t, svrs[t]>> \in Server \X Handle /\ game[t].fd = svrs[t]
      BY <1>3, <2>2 DEF Attached, LobbyTyped
    <3>2. toGame' = [toGame EXCEPT ![<<t, svrs[t]>>] = Append(@, Msg("enter"))]
      BY <1>3, <3>1 DEF SendMsg2Server, SendOn
    <3>3. Msg("enter") \in ToGame /\ Msg("enter").kind = "enter"
      BY Messages DEF Msg
    <3>4. toGame[<<t, svrs[t]>>] \in Seq(ToGame)
      BY <3>1 DEF ToGameTyped
    <3>5. Coming(Append(toGame[<<t, svrs[t]>>], Msg("enter")), "enter")
      BY <3>3, <3>4, ComingAppend
    <3> QED BY <3>1, <3>2, <3>5 DEF ToGameTyped
  <2> QED BY <2>1, <2>2, ByName DEF RoutedTo
<1> QED BY <1>1, <1>2, <1>3 DEF EnterGameSvr

(* The steps of the lobby's clients and timers.                            *)
LEMMA ClientsRouted ==
    ASSUME RInv, LobbyStep
    PROVE  Routed'
<1> USE Parts DEF RInv
<1>1. UNCHANGED <<game, svrs, open, toLobby>>
  BY DEF LobbyStep, Login, ReLogin, OnGetAllData, ClientGone, CheckRecoverPlayer,
         ClientAsks, ClientEnters, channels, registry
<1>2. ASSUME NEW u \in Server, RoutedTo(u),
             \/ UNCHANGED toGame
             \/ \E m \in ToGame : \E t : SendMsg2Server(t, m)
      PROVE  RoutedTo(u)'
  <2>1. CASE UNCHANGED toGame
    BY <1>1, <1>2, <2>1, Elsewhere
  <2>2. ASSUME NEW m \in ToGame, NEW t, SendMsg2Server(t, m)
        PROVE  RoutedTo(u)'
    BY <1>1, <1>2, <2>2, SendKeeps
  <2> QED BY <1>2, <2>1, <2>2
<1>3. Msg("net_on") \in ToGame /\ Msg("net_off") \in ToGame /\ Msg("back_lobby") \in ToGame
      /\ \A s \in Server : Goto("goto_svr", s) \in ToGame
  BY Messages
<1>4. ASSUME lobby'.cur = lobby.cur,
             \/ UNCHANGED toGame
             \/ \E m \in ToGame : \E t : SendMsg2Server(t, m)
      PROVE  Routed'
  <2>1. lobby.cur \in Place
    BY LobbyFields DEF LobbyTyped
  <2> QED BY <1>2, <1>4, <2>1, ByName DEF Place
<1>5. CASE Login
  <2>1. lobby'.cur = lobby.cur
    BY <1>5, LobbyFields DEF Login, LobbyTyped, Lobby, Absent
  <2> QED BY <1>4, <1>5, <2>1 DEF Login, channels
<1>6. CASE ReLogin
  <2>1. lobby'.cur = lobby.cur
    BY <1>6, LobbyFields DEF ReLogin, LobbyTyped, Lobby, Absent
  <2> QED BY <1>3, <1>4, <1>6, <2>1 DEF ReLogin, Tell
<1>7. CASE OnGetAllData
  <2>1. lobby'.cur = CurSvrID(redis)
    BY <1>7, LobbyFields DEF OnGetAllData, LobbyTyped, Lobby, Absent
  <2>2. CASE CurSvrID(redis) = NoSvr
    BY <2>1, <2>2 DEF Routed
  <2>3. CASE CurSvrID(redis) # NoSvr
    <3>1. CurSvrID(redis) = redis /\ redis \in Server
      BY <2>3 DEF CurSvrID, RedisRight, Place
    <3>2. RoutedTo(redis)
      BY <3>1, RedisRouted
    <3>3. SendMsg2Server(redis, Msg("net_on"))
      BY <1>7, <3>1 DEF OnGetAllData, Tell
    <3>4. \A u \in Server : RoutedTo(u) => RoutedTo(u)'
      BY <1>2, <1>3, <3>3
    <3> QED BY <1>7, <2>1, <3>1, <3>2, <3>4, ByName DEF OnGetAllData, RoutedTo
  <2> QED BY <2>2, <2>3
<1>8. CASE ClientGone
  <2>1. lobby'.cur = lobby.cur
    BY <1>8, LobbyFields DEF ClientGone, LobbyTyped, Lobby, Absent
  <2> QED BY <1>3, <1>4, <1>8, <2>1 DEF ClientGone, Tell
<1>9. CASE CheckRecoverPlayer
  BY <1>9 DEF CheckRecoverPlayer, Absent, Routed
<1>10. ASSUME NEW m \in ToGame, ClientAsks(m) PROVE Routed'
  BY <1>4, <1>10 DEF ClientAsks, Tell
<1>11. ASSUME NEW s \in Server, ClientEnters(s) PROVE Routed'
  <2>1. lobby.cur \in Place
    BY LobbyFields DEF LobbyTyped
  <2> QED BY <1>1, <1>11, <2>1, EnterRoutes DEF ClientEnters
<1> QED BY <1>3, <1>5, <1>6, <1>7, <1>8, <1>9, <1>10, <1>11 DEF LobbyStep

(* The lobby reads a message: a registration reads redis again before the  *)
(* connection counts, and a leave is used up when it has been obeyed.      *)
LEMMA ReceivesRouted ==
    ASSUME RInv, IInv', NEW s \in Server, NEW h \in Handle, LobbyReceives(s, h)
    PROVE  Routed'
<1> USE Parts DEF RInv
<1> DEFINE m == Head(toLobby[<<s, h>>])
<1>1. UNCHANGED <<game, open>>
  BY DEF LobbyReceives
<1>2. m \in ToLobby /\ toLobby[<<s, h>>] \in Seq(ToLobby) /\ toLobby[<<s, h>>] # <<>>
  BY DEF LobbyReceives, ToLobbyTyped
<1>3. toLobby' = [toLobby EXCEPT ![<<s, h>>] = Tail(toLobby[<<s, h>>])]
  BY DEF LobbyReceives
<1>4. lobby.cur \in Place /\ lobby'.cur \in Place
  BY LobbyFields DEF LobbyTyped, Lobby, Absent, Place
<1>5. ~Exists => lobby.cur = NoSvr
  BY LobbyFields DEF Exists, LobbyTyped, Absent
<1>6. CASE AddServer(s, h)
  <2>1. CASE Exists /\ lobby.cur = s
    <3>1. lobby'.cur = CurSvrID(redis)
      BY <1>6, <2>1, LobbyFields DEF AddServer, SetCurSvrID, LobbyTyped, Lobby, Absent, Exists
    <3>2. lobby'.cur # NoSvr => redis' = lobby'.cur
      BY <1>6, <2>1, <3>1 DEF AddServer, SetCurSvrID, CurSvrID
    <3> QED BY <1>4, <3>2, RedisRouted, ByName DEF Place, RoutedTo
  <2>2. CASE ~(Exists /\ lobby.cur = s)
    <3>1. lobby' = lobby
      BY <1>6, <2>2 DEF AddServer
    <3>2. ASSUME NEW u \in Server, u # s, RoutedTo(u) PROVE RoutedTo(u)'
      <4>1. svrs'[u] = svrs[u]
        BY <1>6, <3>2 DEF AddServer, LobbyTyped
      <4>2. \A x \in Handle : toGame'[<<u, x>>] = toGame[<<u, x>>]
        BY <1>6, <3>2 DEF AddServer, SendOn, ToGameTyped
      <4>3. \A x \in Handle : toLobby'[<<u, x>>] = toLobby[<<u, x>>]
        BY <1>3, <3>2 DEF ToLobbyTyped
      <4> QED BY <1>1, <3>2, <4>1, <4>2, <4>3, Elsewhere
    <3> QED BY <1>4, <1>5, <2>2, <3>1, <3>2, ByName DEF Place, RoutedTo
  <2> QED BY <2>1, <2>2
<1>7. CASE LeaveSvr(m.goto) /\ m.kind = "leave"
  <2>1. m.goto \in Place
    BY <1>2 DEF ToLobby, Place
  <2>2. UNCHANGED svrs
    BY <1>7 DEF LeaveSvr, registry
  <2>3. CASE Exists /\ m.goto # NoSvr
    <3>1. m.goto \in Server /\ NoSvr \in Place /\ EnterGameSvr(NoSvr, m.goto)
      BY <1>7, <2>1, <2>3 DEF Place, LeaveSvr
    <3> QED BY <1>1, <2>2, <2>3, <3>1, EnterRoutes DEF Exists
  <2>4. CASE Exists /\ m.goto = NoSvr
    <3>1. lobby'.cur = NoSvr
      BY <1>7, <2>4, LobbyFields DEF LeaveSvr, LobbyTyped, Lobby, Absent
    <3> QED BY <3>1 DEF Routed
  <2>5. CASE ~Exists
    BY <1>5, <1>7, <2>5 DEF LeaveSvr, Routed
  <2> QED BY <2>3, <2>4, <2>5
<1>8. ASSUME NEW known, NotifyLeaveState(s, h, known), m.kind # "leave"
      PROVE  Routed'
  <2>1. UNCHANGED <<lobby, svrs>>
    BY <1>8 DEF NotifyLeaveState, registry
  <2>2. ASSUME NEW u \in Server, RoutedTo(u) PROVE RoutedTo(u)'
    <3>1. Coming(toLobby[<<u, svrs[u]>>], "leave")
            => Coming(toLobby'[<<u, svrs[u]>>], "leave")
      <4>1. CASE <<u, svrs[u]>> = <<s, h>>
        BY <1>2, <1>3, <1>8, <4>1, ComingTail DEF ToLobbyTyped
      <4>2. CASE <<u, svrs[u]>> # <<s, h>>
        BY <1>3, <4>2 DEF ToLobbyTyped
      <4> QED BY <4>1, <4>2
    <3>2. Msg("net_off") \in ToGame
      BY Messages
    <3>3. UNCHANGED toGame \/ SendOn(s, h, Msg("net_off"))
      BY <1>8 DEF NotifyLeaveState
    <3> QED BY <1>1, <2>1, <2>2, <3>1, <3>2, <3>3, SendKeeps
  <2> QED BY <1>4, <2>1, <2>2, ByName DEF Place, RoutedTo
<1> QED BY <1>6, <1>7, <1>8 DEF LobbyReceives

LEMMA DestroyRouted ==
    ASSUME RInv, NEW s \in Server, NEW h \in Handle, DestroyObj(s, h)
    PROVE  Routed'
<1> USE Parts DEF RInv
<1>1. UNCHANGED <<lobby, game, toGame>> /\ toLobby' = [toLobby EXCEPT ![<<s, h>>] = <<>>]
  BY DEF DestroyObj
<1>2. ASSUME NEW u \in Server, RoutedTo(u) PROVE RoutedTo(u)'
  <2>1. CASE svrs[s] = h /\ u = s
    <3>1. svrs'[s] = NoHandle
      BY <2>1 DEF DestroyObj, LobbyTyped
    <3> QED BY <2>1, <3>1 DEF RoutedTo, Attached
  <2>2. CASE ~(svrs[s] = h /\ u = s)
    <3>1. svrs'[u] = svrs[u] /\ <<u, svrs[u]>> # <<s, h>>
      BY <2>2 DEF DestroyObj, LobbyTyped, registry
    <3>2. svrs[u] \in Handle => toLobby'[<<u, svrs[u]>>] = toLobby[<<u, svrs[u]>>]
      BY <1>1, <3>1 DEF ToLobbyTyped
    <3>3. svrs[u] = NoHandle \/ svrs[u] \in Handle
      BY DEF LobbyTyped
    <3>4. Attached(u)' => Attached(u)
      BY <1>1, <3>1, <3>3 DEF Attached, RegisteredOpen
    <3> QED BY <1>1, <1>2, <3>1, <3>2, <3>3, <3>4 DEF RoutedTo, Here, Attached
  <2> QED BY <2>1, <2>2
<1>3. lobby.cur \in Place
  BY LobbyFields DEF LobbyTyped
<1> QED BY <1>1, <1>2, <1>3, ByName DEF Place, RoutedTo

(* What game server s does: the lobby's places stay, and so does every     *)
(* other server; what remains is s itself.                                 *)
LEMMA GameRouted ==
    ASSUME RInv, NEW s \in Server, UNCHANGED <<lobby, svrs>>,
           \A u \in Server \ {s} :
             /\ game'[u] = game[u]
             /\ \A h \in Handle : toGame'[<<u, h>>] = toGame[<<u, h>>]
             /\ \A h \in Handle : toLobby'[<<u, h>>] = toLobby[<<u, h>>],
           RoutedTo(s) => RoutedTo(s)'
    PROVE  Routed'
<1> USE Parts DEF RInv
<1>1. \A u \in Server : RoutedTo(u) => RoutedTo(u)'
  BY Elsewhere
<1>2. lobby.cur \in Place
  BY LobbyFields DEF LobbyTyped
<1> QED BY <1>1, <1>2, ByName DEF Place, RoutedTo

LEMMA ClosedElsewhere ==
    ASSUME IInv, NEW s \in Server, toGame' = Closed(s)
    PROVE  \A u \in Server \ {s}, h \in Handle : toGame'[<<u, h>>] = toGame[<<u, h>>]
BY Parts DEF Closed, ToGameTyped

LEMMA SendElsewhere ==
    ASSUME IInv, NEW s \in Server, NEW h \in Handle, NEW m, SendMsg2Client(s, h, m)
    PROVE  \A u \in Server \ {s}, x \in Handle : toLobby'[<<u, x>>] = toLobby[<<u, x>>]
BY Parts DEF SendMsg2Client, ToLobbyTyped

(* A connection that is lost, new or crashed with its server is not the    *)
(* one the server is registered on.                                        *)
LEMMA DetachedRouted ==
    ASSUME RInv, NEW s \in Server,
           OnClose(s) \/ ReConnect(s) \/ Crash(s) \/ Restart(s)
    PROVE  Routed'
<1> USE Parts DEF RInv
<1>1. UNCHANGED <<lobby, svrs>>
  BY DEF OnClose, ReConnect, Crash, Restart, registry
<1>2. \A u \in Server \ {s} : game'[u] = game[u]
  BY DEF OnClose, ReConnect, Crash, Restart, GameTyped
<1>3. \A u \in Server \ {s}, h \in Handle : toGame'[<<u, h>>] = toGame[<<u, h>>]
  BY ClosedElsewhere DEF OnClose, ReConnect, Crash, Restart, channels
<1>4. \A u \in Server \ {s}, h \in Handle : toLobby'[<<u, h>>] = toLobby[<<u, h>>]
  BY DEF OnClose, ReConnect, Crash, Restart, channels, ToLobbyTyped
<1>5. ~Attached(s)'
  <2>1. CASE OnClose(s)
    <3>1. game'[s].fd = NoHandle
      BY <2>1, IsRunning DEF OnClose, GameTyped, Running
    <3> QED BY <3>1 DEF Attached
  <2>2. CASE ReConnect(s)
    <3>1. game[s] \in Running
      BY <2>2, IsRunning DEF ReConnect
    <3>2. PICK h \in Handle : Free(s, h) /\ game' = [game EXCEPT ![s].fd = h, ![s].run = TRUE]
      BY <2>2 DEF ReConnect
    <3>3. game'[s].fd = h
      BY <3>1, <3>2 DEF GameTyped, Running
    <3> QED BY <1>1, <3>2, <3>3, HandoffAssumption DEF Attached, Free, RegisteredOpen
  <2>3. CASE Crash(s)
    BY <2>3 DEF Crash, Attached, GameTyped, Down
  <2>4. CASE Restart(s)
    <3>1. game[s] = Down
      BY <2>4 DEF Restart, GameTyped, Game
    <3>2. game'[s].fd = NoHandle
      BY <2>4, <3>1 DEF Restart, GameTyped, Down
    <3> QED BY <3>2 DEF Attached
  <2> QED BY <2>1, <2>2, <2>3, <2>4
<1>6. RoutedTo(s)'
  BY <1>5 DEF RoutedTo
<1> QED BY <1>1, <1>2, <1>3, <1>4, <1>6, GameRouted

(* OnLoginOut: the player is out, and the lobby hears of it if it listens  *)
(* to this connection.                                                     *)
LEMMA LogoutRouted ==
    ASSUME RInv, NEW s \in Server, NEW t \in Place, Here(s), OnLoginOut(s, t),
           UNCHANGED svrs
    PROVE  /\ RoutedTo(s)'
           /\ \A u \in Server \ {s} :
                /\ game'[u] = game[u]
                /\ \A h \in Handle : toLobby'[<<u, h>>] = toLobby[<<u, h>>]
<1> USE Parts DEF RInv
<1> DEFINE m == Goto("leave", t)
<1>1. PICK h \in Handle : /\ SendMsg2Client(s, h, m)
                          /\ game' = [game EXCEPT ![s] =
                                         [[game[s] EXCEPT !.here = "out"] EXCEPT !.fd = h]]
  BY DEF OnLoginOut, Sends
<1>2. game[s] \in Running
  BY IsRunning
<1>3. game'[s].fd = h
  BY <1>1, <1>2 DEF GameTyped, Running
<1>4. m \in ToLobby /\ m.kind = "leave"
  BY Messages DEF Goto
<1>5. toLobby[<<s, h>>] \in Seq(ToLobby)
  BY DEF ToLobbyTyped
<1>6. Coming(Append(toLobby[<<s, h>>], m), "leave")
  BY <1>4, <1>5, ComingAppend
<1> HIDE DEF m
<1>7. Attached(s)' => toLobby'[<<s, svrs'[s]>>] = Append(toLobby[<<s, h>>], m)
  BY <1>1, <1>3 DEF Attached, SendMsg2Client, ToLobbyTyped
<1>8. RoutedTo(s)'
  BY <1>6, <1>7 DEF RoutedTo
<1> QED BY <1>1, <1>8, SendElsewhere DEF GameTyped

(* The player stays, and something is sent.                                *)
LEMMA SpeaksRouted ==
    ASSUME RInv, NEW s \in Server, NEW f \in Running, f.here # "out", NEW m, Sends(s, f, m)
    PROVE  /\ RoutedTo(s)'
           /\ \A u \in Server \ {s} :
                /\ game'[u] = game[u]
                /\ \A h \in Handle : toLobby'[<<u, h>>] = toLobby[<<u, h>>]
<1> USE Parts DEF RInv
<1>1. PICK h \in Handle : /\ SendMsg2Client(s, h, m)
                          /\ game' = [game EXCEPT ![s] = [f EXCEPT !.fd = h]]
  BY DEF Sends
<1>2. Here(s)'
  BY <1>1 DEF GameTyped, Running, Here
<1> QED BY <1>1, <1>2, SendElsewhere DEF GameTyped, RoutedTo

(* A game server reads a message: it has the player after an "enter", and  *)
(* any other message leaves an "enter" behind it where it is.              *)
LEMMA GameReceivesRouted ==
    ASSUME RInv, NEW s \in Server, GameReceives(s)
    PROVE  Routed'
<1> USE Parts DEF RInv
<1> DEFINE q == toGame[<<s, game[s].fd>>]
           m == Head(q)
<1>1. UNCHANGED <<lobby, svrs>> /\ toGame' = [toGame EXCEPT ![<<s, game[s].fd>>] = Tail(q)]
  BY DEF GameReceives, registry
<1>2. game[s] \in Running /\ game[s].fd \in Handle
  <2>1. game[s] \in Running
    BY IsRunning DEF GameReceives
  <2> QED BY <2>1 DEF Running, GameReceives
<1>3. q \in Seq(ToGame) /\ q # <<>> /\ m \in ToGame
  BY <1>2 DEF GameReceives, ToGameTyped
<1>4. \A u \in Server \ {s}, h \in Handle : toGame'[<<u, h>>] = toGame[<<u, h>>]
  BY <1>1 DEF ToGameTyped
<1>5. ASSUME NEW g \in Running, Becomes(s, g), g.fd = game[s].fd, Here(s) => g.here # "out",
             m.kind # "enter" \/ g.here # "out"
      PROVE  Routed'
  <2>1. game'[s] = g /\ \A u \in Server \ {s} : game'[u] = game[u]
    BY <1>5 DEF Becomes, GameTyped
  <2>2. UNCHANGED <<open, toLobby>>
    BY <1>5 DEF Becomes
  <2>3. ASSUME RoutedTo(s) PROVE RoutedTo(s)'
    <3>1. SUFFICES ASSUME Attached(s), m.kind # "enter", Coming(q, "enter")
                   PROVE  Coming(toGame'[<<s, svrs[s]>>], "enter")
      BY <1>1, <1>5, <2>1, <2>2, <2>3 DEF RoutedTo, Attached, Here
    <3>2. Coming(Tail(q), "enter")
      BY <1>3, <3>1, ComingTail
    <3>3. toGame'[<<s, svrs[s]>>] = Tail(q)
      BY <1>1, <1>2, <3>1 DEF Attached, ToGameTyped
    <3> QED BY <3>2, <3>3
  <2> QED BY <1>1, <1>4, <2>1, <2>2, <2>3, GameRouted
<1>6. CASE m.kind = "refused" /\ Becomes(s, [game[s] EXCEPT !.run = FALSE])
  <2> DEFINE g == [game[s] EXCEPT !.run = FALSE]
  <2>1. g \in Running /\ g.fd = game[s].fd /\ g.here = game[s].here
    BY <1>2 DEF Running
  <2> QED BY <1>5, <1>6, <2>1 DEF Here
<1>7. CASE EnterSvr(s)
  <2> DEFINE g == [game[s] EXCEPT !.here = "on"]
  <2>1. game'[s].here = "on" /\ (\A u \in Server \ {s} : game'[u] = game[u])
    BY <1>2, <1>7 DEF EnterSvr, GameTyped, Running
  <2>2. UNCHANGED toLobby
    BY <1>7 DEF EnterSvr
  <2>3. RoutedTo(s)'
    BY <2>1 DEF RoutedTo, Here
  <2> QED BY <1>1, <1>4, <2>1, <2>2, <2>3, GameRouted
<1>8. ASSUME NEW state \in {"on", "off"}, SetNetState(s, state), m.kind # "enter"
      PROVE  Routed'
  <2> DEFINE g == [game[s] EXCEPT !.here = state]
  <2>1. g \in Running /\ g.fd = game[s].fd /\ g.here = state
    BY <1>2 DEF Running
  <2>2. CASE game[s].busy
    BY <1>1, <1>4, <1>8, <2>1, <2>2, SpeaksRouted, GameRouted DEF SetNetState
  <2>3. CASE ~game[s].busy
    BY <1>2, <1>5, <1>8, <2>1, <2>3 DEF SetNetState, Here
  <2> QED BY <2>2, <2>3
<1>9. CASE m.kind = "stop" /\ Becomes(s, [game[s] EXCEPT !.stopped = TRUE])
  <2> DEFINE g == [game[s] EXCEPT !.stopped = TRUE]
  <2>1. g \in Running /\ g.fd = game[s].fd /\ g.here = game[s].here
    BY <1>2 DEF Running
  <2> QED BY <1>5, <1>9, <2>1 DEF Here
<1>10. CASE BackLobby(s, m.goto) /\ m.kind # "enter"
  <2>1. m.goto \in Place
    BY <1>3 DEF ToGame, Place
  <2>2. CASE Here(s) /\ OnLoginOut(s, m.goto)
    BY <1>1, <1>4, <2>1, <2>2, LogoutRouted, GameRouted
  <2>3. CASE Becomes(s, game[s])
    BY <1>2, <1>5, <1>10, <2>3 DEF Here
  <2> QED BY <1>10, <2>2, <2>3 DEF BackLobby
<1> QED BY <1>6, <1>7, <1>8, <1>9, <1>10 DEF GameReceives

(* The player stays in a round, and after one.                             *)
LEMMA StaysRouted ==
    ASSUME RInv, NEW s \in Server, StartGame(s) \/ OnGameEnd(s) \/ HeartTimeout(s)
    PROVE  Routed'
<1> USE Parts DEF RInv
<1>1. UNCHANGED <<lobby, svrs, toGame>>
  BY DEF StartGame, OnGameEnd, HeartTimeout, registry
<1>2. Here(s) /\ game[s] \in Running
  <2>1. Here(s)
    BY DEF StartGame, OnGameEnd, HeartTimeout, GameTyped, Here
  <2> QED BY <2>1, IsRunning
<1>3. CASE HeartTimeout(s)
  BY <1>1, <1>2, <1>3, GameRouted DEF HeartTimeout, Becomes, GameTyped, Running, Here, RoutedTo
<1>4. ASSUME NEW b \in BOOLEAN, NEW m, Sends(s, [game[s] EXCEPT !.busy = b], m)
      PROVE  Routed'
  <2>1. [game[s] EXCEPT !.busy = b] \in Running /\ [game[s] EXCEPT !.busy = b].here # "out"
    BY <1>2 DEF Running, Here
  <2> QED BY <1>1, <1>4, <2>1, SpeaksRouted, GameRouted
<1>5. CASE StartGame(s)
  BY <1>4, <1>5 DEF StartGame
<1>6. CASE OnGameEnd(s)
  BY <1>4, <1>6 DEF OnGameEnd
<1> QED BY <1>3, <1>5, <1>6

LEMMA RecoverRouted ==
    ASSUME RInv, NEW s \in Server, RecoverCopy(s)
    PROVE  Routed'
<1>1. Here(s) /\ OnLoginOut(s, NoSvr) /\ NoSvr \in Place /\ UNCHANGED <<lobby, svrs, toGame>>
  BY DEF RecoverCopy, registry, Place
<1> QED BY <1>1, LogoutRouted, GameRouted

LEMMA RepairRouted ==
    ASSUME RInv, NEW s \in Server, CheckRepairServer(s)
    PROVE  Routed'
<1> USE Parts DEF RInv
<1>1. UNCHANGED <<lobby, svrs, game, open, toLobby>>
  BY DEF CheckRepairServer
<1>2. svrs[s] \in Handle /\ Msg("stop") \in ToGame /\ SendOn(s, svrs[s], Msg("stop"))
  BY Messages DEF CheckRepairServer, LobbyTyped
<1>3. \A u \in Server : RoutedTo(u) => RoutedTo(u)'
  BY <1>1, <1>2, SendKeeps
<1>4. lobby.cur \in Place
  BY LobbyFields DEF LobbyTyped
<1> QED BY <1>1, <1>3, <1>4, ByName DEF Place, RoutedTo

(* A connection is registered while the lobby has it, and goes with it.    *)
LEMMA RegisteredStep ==
    ASSUME RInv, [Next]_vars
    PROVE  RegisteredOpen'
<1> USE Parts DEF RInv
<1>1. CASE \E s \in Server, h \in Handle : LobbyReceives(s, h)
  <2>1. PICK s \in Server, h \in Handle : LobbyReceives(s, h)
    BY <1>1
  <2>2. <<s, h>> \in open /\ UNCHANGED open
    BY <2>1 DEF LobbyReceives
  <2>3. svrs' = svrs \/ svrs' = [svrs EXCEPT ![s] = h]
    BY <2>1 DEF LobbyReceives, AddServer, LeaveSvr, NotifyLeaveState, registry
  <2> QED BY <2>2, <2>3 DEF RegisteredOpen, LobbyTyped
<1>2. CASE \E s \in Server, h \in Handle : DestroyObj(s, h)
  BY <1>2 DEF DestroyObj, RegisteredOpen, LobbyTyped, registry
<1>3. CASE LobbyCrash
  BY <1>3 DEF LobbyCrash, RegisteredOpen
<1>4. CASE UNCHANGED svrs /\ open \subseteq open'
  BY <1>4 DEF RegisteredOpen
<1>5. ASSUME NEW s \in Server, NEW g, NEW m, Sends(s, g, m) PROVE open \subseteq open'
  BY <1>5 DEF Sends, SendMsg2Client
<1>6. CASE LobbyStep
  BY <1>4, <1>6 DEF LobbyStep, Login, ReLogin, OnGetAllData, ClientGone, CheckRecoverPlayer,
     ClientAsks, ClientEnters, registry, channels
<1>7. ASSUME NEW s \in Server,
             \/ CheckRepairServer(s) \/ OnClose(s) \/ ReConnect(s) \/ GameReceives(s)
             \/ StartGame(s) \/ OnGameEnd(s) \/ HeartTimeout(s) \/ RecoverCopy(s)
             \/ Crash(s) \/ Restart(s)
      PROVE  RegisteredOpen'
  <2>1. UNCHANGED svrs
    BY <1>7 DEF CheckRepairServer, OnClose, ReConnect, GameReceives, StartGame, OnGameEnd,
       HeartTimeout, RecoverCopy, Crash, Restart, registry
  <2>2. open \subseteq open'
    BY <1>5, <1>7 DEF CheckRepairServer, OnClose, ReConnect, GameReceives, StartGame,
       OnGameEnd, HeartTimeout, RecoverCopy, Crash, Restart, channels, Becomes, OnLoginOut,
       EnterSvr, BackLobby, SetNetState
  <2> QED BY <1>4, <2>1, <2>2
<1>8. CASE UNCHANGED vars
  BY <1>4, <1>8 DEF vars, registry, channels
<1> QED BY <1>1, <1>2, <1>3, <1>6, <1>7, <1>8 DEF Next, LobbyStep

LEMMA RoutedStep == RInv /\ [Next]_vars => RInv'
<1> SUFFICES ASSUME RInv, [Next]_vars PROVE RInv'
  OBVIOUS
<1>1. IInv' /\ RegisteredOpen'
  BY Step, RegisteredStep DEF RInv
<1> SUFFICES Routed'
  BY <1>1 DEF RInv
<1>2. CASE LobbyStep
  BY <1>2, ClientsRouted
<1>3. CASE LobbyCrash
  BY <1>3 DEF LobbyCrash, Absent, Routed
<1>4. CASE \E s \in Server : CheckRepairServer(s) \/ GameReceives(s)
  BY <1>4, RepairRouted, GameReceivesRouted
<1>5. CASE \E s \in Server : OnClose(s) \/ ReConnect(s) \/ Crash(s) \/ Restart(s)
  BY <1>5, DetachedRouted
<1>6. CASE \E s \in Server : StartGame(s) \/ OnGameEnd(s) \/ HeartTimeout(s)
  BY <1>6, StaysRouted
<1>7. CASE \E s \in Server : RecoverCopy(s)
  BY <1>7, RecoverRouted
<1>8. CASE \E s \in Server, h \in Handle : LobbyReceives(s, h) \/ DestroyObj(s, h)
  BY <1>1, <1>8, ReceivesRouted, DestroyRouted
<1>9. CASE UNCHANGED vars
  BY <1>9 DEF vars, registry, channels, RInv, Routed, Attached, Here
<1> QED BY <1>2, <1>3, <1>4, <1>5, <1>6, <1>7, <1>8, <1>9 DEF Next, LobbyStep

(* The lobby never routes a player into the void (AddServer, SetCurSvrID,  *)
(* EnterGameSvr, handle_msg_leave_svr, OnLoginOut): whatever was lost, the *)
(* server it is attached to has the player, or is to get it, or has said   *)
(* that it is gone.                                                        *)
THEOREM AlwaysRouted == Spec => []Routed
<1>1. Init => RInv
  BY Initially DEF RInv, Init, RegisteredOpen, Routed, Absent
<1>2. RInv => Routed
  BY DEF RInv
<1> QED BY <1>1, <1>2, RoutedStep, PTL DEF Spec
=============================================================================
