-------------------------- MODULE LobbyLoginProofs --------------------------
(* Theorems about LobbyLogin, for any players, sockets and limits.         *)
EXTENDS LobbyLogin, TLAPS

LEMMA Ages ==
  /\ 0 \in LoadAge
  /\ 0 \in OffAge
  /\ \A a \in LoadAge : Older(a, LoadTimeout) \in LoadAge
  /\ \A a \in OffAge : Older(a, OfflineTime) \in OffAge
BY BoundAssumption DEF LoadAge, OffAge, Older

LEMMA NobodyType == Nobody \in Player /\ Closed \in Handle
BY Ages DEF Nobody, Player, Closed, Handle

LEMMA NobodyFields ==
  /\ Nobody.state = "none" /\ Nobody.session = NoSock /\ Nobody.changed = {}
  /\ Closed.uid = NoUid
BY DEF Nobody, Closed

(* The updates the handlers make to one player object.                     *)
LEMMA SessionUpdate ==
  ASSUME NEW p \in Player, NEW s \in Sock \cup {NoSock}
  PROVE  /\ [p EXCEPT !.session = s] \in Player
         /\ [p EXCEPT !.session = s, !.kicked = TRUE] \in Player
BY DEF Player

LEMMA LoadUpdate ==
  ASSUME NEW p \in Player
  PROVE  [p EXCEPT !.state = "load", !.loadAge = 0] \in Player
BY Ages DEF Player

LEMMA DataUpdate ==
  ASSUME NEW p \in Player, NEW t \in Part
  PROVE  [p EXCEPT !.changed = p.changed \cup {t}] \in Player
BY DEF Player

LEMMA ReceivedType ==
  ASSUME NEW t \in Part, NEW u \in Uid, player[u] \in Player, NEW away \in BOOLEAN
  PROVE  Received(t, u, away) \in Player
<1> DEFINE d == player[u].loaded \cup {t}
           c == player[u].changed \ {t}
<1>1. d \subseteq Part /\ c \subseteq Part
  BY DEF Player
<1>2. [player[u] EXCEPT !.loaded = d, !.changed = c] \in Player
  BY <1>1 DEF Player
<1>3. [player[u] EXCEPT !.loaded = d, !.changed = c, !.state = "playing",
                        !.loadAge = 0, !.away = away] \in Player
  BY <1>1, Ages DEF Player
<1> QED BY <1>2, <1>3 DEF Received

LEMMA TickUpdate ==
  ASSUME NEW u \in Uid, player[u] \in Player
  PROVE  Aged(u) \in Player /\ Noticed(u) \in Player
<1> DEFINE p == player[u]
<1>1. (IF Loading(u) THEN Older(p.loadAge, LoadTimeout) ELSE p.loadAge) \in LoadAge
  BY Ages DEF Player
<1>2. /\ (IF p.off = Unset THEN p.off ELSE Older(p.off, OfflineTime)) \in OffAge \cup {Unset}
      /\ (IF p.session # NoSock THEN Unset ELSE IF p.off = Unset THEN 0 ELSE p.off)
            \in OffAge \cup {Unset}
  BY Ages DEF Player
<1>3. \A a \in LoadAge, f \in OffAge \cup {Unset} :
        [p EXCEPT !.loadAge = a, !.off = f] \in Player /\ [p EXCEPT !.off = f] \in Player
  BY DEF Player
<1> QED BY <1>1, <1>2, <1>3 DEF Aged, Noticed

LEMMA OnLoginType ==
  ASSUME player \in [Uid -> Player], loads \in [Part -> Seq(Uid)],
         NEW u \in Uid, NEW p \in Player, OnLogin(u, p)
  PROVE  player' \in [Uid -> Player] /\ loads' \in [Part -> Seq(Uid)]
<1>1. \A t \in Part : Append(loads[t], u) \in Seq(Uid)
  OBVIOUS
<1> QED BY <1>1, LoadUpdate DEF OnLogin

-----------------------------------------------------------------------------
(* Every variable keeps its type.                                          *)
LEMMA TypeStep == TypeOK /\ [Next]_vars => TypeOK'
<1> SUFFICES ASSUME TypeOK, [Next]_vars PROVE TypeOK'
  OBVIOUS
<1>t. /\ sock \in [Sock -> Handle]
      /\ player \in [Uid -> Player]
      /\ loads \in [Part -> Seq(Uid)]
      /\ status \in {"running", "repair"}
  BY DEF TypeOK
<1>d. \A t \in Part : loads[t] # <<>> => /\ Head(loads[t]) \in Uid
                                         /\ [loads EXCEPT ![t] = Tail(@)] \in [Part -> Seq(Uid)]
  BY <1>t
<1>1. ASSUME NEW s \in Sock, Connect(s) PROVE TypeOK'
  BY <1>1, <1>t DEF Connect, Handle, TypeOK
<1>2. ASSUME NEW s \in Sock, LoginAgain(s) PROVE TypeOK'
  <2>1. sock[s].uid \in Uid
    BY <1>2, <1>t DEF LoginAgain, LoggedIn, Handle
  <2> QED BY <1>2, <1>t, <2>1, OnLoginType DEF LoginAgain, TypeOK
<1>3. ASSUME NEW s \in Sock, CloseClient(s) \/ HeartTimeout(s) PROVE TypeOK'
  <2>1. Detached(s) \in [Uid -> Player]
    BY <1>t, SessionUpdate DEF Detached
  <2> QED BY <1>3, <1>t, <2>1, NobodyType DEF CloseClient, HeartTimeout, DestroyObj, TypeOK
<1>4. ASSUME NEW s \in Sock, ClientVanishes(s) PROVE TypeOK'
  BY <1>4, <1>t DEF ClientVanishes, Handle, TypeOK
<1>5. ASSUME NEW s \in Sock, NEW u \in Uid, TakeOver(s, u) PROVE TypeOK'
  <2>1. sock' \in [Sock -> Handle]
    <3>1. [sock[s] EXCEPT !.uid = u] \in Handle
      BY <1>t DEF Handle
    <3> QED BY <1>5, <1>t, <3>1, NobodyType DEF TakeOver
  <2>2. player' \in [Uid -> Player] /\ loads' \in [Part -> Seq(Uid)]
    <3>1. [player[u] EXCEPT !.session = s] \in Player
      BY <1>t, SessionUpdate
    <3>2. CASE Playing(u)
      BY <1>5, <1>t, <3>1, <3>2 DEF TakeOver
    <3>3. CASE ~Playing(u)
      BY <1>5, <1>t, <3>1, <3>3, OnLoginType DEF TakeOver
    <3> QED BY <3>2, <3>3
  <2> QED BY <1>5, <1>t, <2>1, <2>2 DEF TakeOver, TypeOK
<1>6. ASSUME NEW s \in Sock, NEW u \in Uid, FirstLogin(s, u) PROVE TypeOK'
  <2>1. [Nobody EXCEPT !.session = s] \in Player
    BY NobodyType, SessionUpdate
  <2>2. sock' \in [Sock -> Handle]
    BY <1>6, <1>t DEF FirstLogin, Handle
  <2> QED BY <1>6, <1>t, <2>1, <2>2, OnLoginType DEF FirstLogin, TypeOK
<1>7. ASSUME NEW t \in Part, OnLoadEvent(t) PROVE TypeOK'
  <2>1. Head(loads[t]) \in Uid /\ loads' \in [Part -> Seq(Uid)]
    BY <1>7, <1>d DEF OnLoadEvent
  <2>2. player' \in [Uid -> Player]
    BY <1>7, <1>t, <2>1, ReceivedType DEF OnLoadEvent
  <2> QED BY <1>7, <1>t, <2>1, <2>2 DEF OnLoadEvent, TypeOK
<1>8. ASSUME NEW t \in Part, QueryFails(t) PROVE TypeOK'
  BY <1>8, <1>t, <1>d DEF QueryFails, TypeOK
<1>9. ASSUME NEW u \in Uid, PhpKill(u) PROVE TypeOK'
  <2>1. sock' \in [Sock -> Handle]
    BY <1>9, <1>t, NobodyType DEF PhpKill
  <2>2. player' \in [Uid -> Player]
    <3>1. player' = [player EXCEPT ![u] = [player[u] EXCEPT !.session = NoSock, !.kicked = TRUE]]
      BY <1>9, <1>t DEF PhpKill, Player
    <3> QED BY <3>1, <1>t, SessionUpdate
  <2> QED BY <1>9, <1>t, <2>1, <2>2 DEF PhpKill, TypeOK
<1>10. ASSUME NEW u \in Uid, EnterGame(u) \/ LeaveGame(u) PROVE TypeOK'
  <2>1. \A b \in BOOLEAN : [player[u] EXCEPT !.away = b] \in Player
    BY <1>t DEF Player
  <2> QED BY <1>10, <1>t, <2>1 DEF EnterGame, LeaveGame, TypeOK
<1>11. ASSUME NEW u \in Uid, NEW p \in Part, ModifyData(u, p) PROVE TypeOK'
  <2>1. [player[u] EXCEPT !.changed = player[u].changed \cup {p}] \in Player
    BY <1>t, DataUpdate
  <2>2. player' = [player EXCEPT ![u] =
                     [player[u] EXCEPT !.changed = player[u].changed \cup {p}]]
    BY <1>11 DEF ModifyData
  <2> QED BY <1>11, <1>t, <2>1, <2>2 DEF ModifyData, TypeOK
<1>12. CASE ClockTick \/ FlushTick
  BY <1>12, <1>t, TickUpdate DEF ClockTick, FlushTick, TypeOK
<1>13. CASE CheckRecoverPlayer
  <2>1. sock' \in [Sock -> Handle]
    BY <1>13, <1>t, NobodyType DEF CheckRecoverPlayer
  <2>2. player' \in [Uid -> Player]
    BY <1>13, <1>t, NobodyType DEF CheckRecoverPlayer
  <2> QED BY <1>13, <1>t, <2>1, <2>2 DEF CheckRecoverPlayer, TypeOK
<1>14. CASE CheckRepairServer
  BY <1>14, <1>t DEF CheckRepairServer, TypeOK
<1>15. CASE UNCHANGED vars
  BY <1>15, <1>t DEF vars, TypeOK
<1> QED
  BY <1>1, <1>2, <1>3, <1>4, <1>5, <1>6, <1>7, <1>8, <1>9, <1>10, <1>11, <1>12,
     <1>13, <1>14, <1>15 DEF Next

THEOREM TypeCorrect == Spec => []TypeOK
<1>1. Init => TypeOK
  BY NobodyType DEF Init, TypeOK
<1> QED BY <1>1, TypeStep, PTL DEF Spec

-----------------------------------------------------------------------------
(* Sessions and sockets point at each other: the invariant is inductive    *)
(* together with the types, because every handler that sets one side sets  *)
(* the other and every handler that closes a socket detaches its player.   *)
Inv == TypeOK /\ SessionsOwned

LEMMA OwnedStep == Inv /\ [Next]_vars => SessionsOwned'
<1> SUFFICES ASSUME Inv, [Next]_vars PROVE SessionsOwned'
  OBVIOUS
<1>t. /\ sock \in [Sock -> Handle]
      /\ player \in [Uid -> Player]
      /\ TypeOK'
  BY TypeStep DEF Inv, TypeOK
<1>p. \A u \in Uid : player[u].session # NoSock =>
         /\ player[u].session \in Sock
         /\ Exists(u)
         /\ sock[player[u].session].open
         /\ sock[player[u].session].uid = u
  BY <1>t DEF Inv, SessionsOwned, Player
<1>s. \A s \in Sock : sock[s].uid # NoUid =>
         sock[s].uid \in Uid /\ player[sock[s].uid].session = s
  BY <1>t DEF Inv, SessionsOwned, Handle
<1>c. \A s \in Sock : ~sock[s].open => sock[s].uid = NoUid
  BY <1>p, <1>s, NullAssumption
<1>1. ASSUME NEW s \in Sock, Connect(s) PROVE SessionsOwned'
  BY <1>1, <1>t, <1>p, <1>s, <1>c DEF Connect, SessionsOwned, Exists
<1>2. ASSUME NEW s \in Sock, LoginAgain(s) PROVE SessionsOwned'
  <2>1. sock[s].uid \in Uid
    BY <1>2, <1>t DEF LoginAgain, LoggedIn, Handle
  <2>2. \A v \in Uid : /\ player'[v].session = player[v].session
                       /\ Exists(v) => Exists(v)'
    BY <1>2, <1>t, <2>1 DEF LoginAgain, OnLogin, Exists, Player
  <2> QED BY <1>2, <1>p, <1>s, <2>2 DEF LoginAgain, SessionsOwned
<1>3. ASSUME NEW s \in Sock, CloseClient(s) \/ HeartTimeout(s) PROVE SessionsOwned'
  <2>1. /\ sock' = [sock EXCEPT ![s] = Closed]
        /\ \A v \in Uid : /\ player'[v].state = player[v].state
                          /\ player'[v].session =
                                IF v = sock[s].uid /\ player[v].session = s
                                THEN NoSock ELSE player[v].session
    BY <1>3, <1>t DEF CloseClient, HeartTimeout, DestroyObj, Detached, Player
  <2> QED BY <1>t, <1>p, <1>s, <2>1 DEF SessionsOwned, Exists, Closed
<1>4. ASSUME NEW s \in Sock, ClientVanishes(s) PROVE SessionsOwned'
  <2>1. \A x \in Sock : sock'[x].open = sock[x].open /\ sock'[x].uid = sock[x].uid
    BY <1>4, <1>t DEF ClientVanishes, Handle
  <2> QED BY <1>4, <1>p, <1>s, <2>1 DEF ClientVanishes, SessionsOwned, Exists
<1>5. ASSUME NEW s \in Sock, NEW u \in Uid, TakeOver(s, u) PROVE SessionsOwned'
  <2>1. sock[s].open /\ sock[s].uid = NoUid
    BY <1>5, <1>p, <1>s, NullAssumption DEF TakeOver, CanLogin, LoggedIn
  <2>2. player[u].session # s
    BY <1>p, <2>1, NullAssumption
  <2>3. \A v \in Uid : /\ Exists(v) => Exists(v)'
                       /\ player'[v].session = IF v = u THEN s ELSE player[v].session
    <3>1. CASE Playing(u)
      BY <1>5, <1>t, <3>1 DEF TakeOver, Exists, Playing, Player
    <3>2. CASE ~Playing(u)
      <4>1. player' = [player EXCEPT ![u] = [[player[u] EXCEPT !.session = s]
                                               EXCEPT !.state = "load", !.loadAge = 0]]
        BY <1>5, <3>2 DEF TakeOver, OnLogin
      <4> QED BY <1>t, <4>1 DEF Exists, Player
    <3> QED BY <3>1, <3>2
  <2>4. \A x \in Sock :
          /\ sock'[x].open = IF x # s /\ x = player[u].session THEN FALSE ELSE sock[x].open
          /\ sock'[x].uid = IF x = s THEN u
                            ELSE IF x = player[u].session THEN NoUid ELSE sock[x].uid
    BY <1>5, <1>t DEF TakeOver, Closed, Handle
  <2>5. Exists(u)
    BY <1>5 DEF TakeOver
  <2>6. \A v \in Uid : player[v].session = s => FALSE
    BY <1>p, <2>1, NullAssumption
  <2>7. \A v \in Uid : v # u /\ player[v].session # NoSock => player[v].session # player[u].session
    BY <1>p
  <2>8. \A x \in Sock : sock[x].uid = u => x = player[u].session
    BY <1>s, NullAssumption
  <2>9. \A v \in Uid : player'[v].session # NoSock =>
          /\ Exists(v)'
          /\ sock'[player'[v].session].open
          /\ sock'[player'[v].session].uid = v
    <3> SUFFICES ASSUME NEW v \in Uid, player'[v].session # NoSock
                 PROVE  /\ Exists(v)'
                        /\ sock'[player'[v].session].open
                        /\ sock'[player'[v].session].uid = v
      OBVIOUS
    <3>1. CASE v = u
      <4>1. player'[v].session = s /\ Exists(v)'
        BY <2>3, <2>5, <3>1
      <4> QED BY <2>1, <2>2, <2>4, <3>1, <4>1
    <3>2. CASE v # u
      <4>1. player'[v].session = player[v].session
        BY <2>3, <3>2
      <4>2. /\ player[v].session \in Sock
            /\ player[v].session # s
            /\ player[v].session # player[u].session
            /\ Exists(v)'
        BY <1>p, <2>3, <2>6, <2>7, <3>2, <4>1
      <4>3. /\ sock'[player[v].session].open = sock[player[v].session].open
            /\ sock'[player[v].session].uid = sock[player[v].session].uid
        BY <2>4, <4>2
      <4>4. sock[player[v].session].open /\ sock[player[v].session].uid = v
        BY <1>p, <3>2, <4>1
      <4> QED BY <4>1, <4>2, <4>3, <4>4
    <3> QED BY <3>1, <3>2
  <2>10. ASSUME NEW x \in Sock, sock'[x].uid # NoUid
         PROVE  player'[sock'[x].uid].session = x
    <3>1. CASE x = s
      BY <2>3, <2>4, <3>1
    <3>2. CASE x # s
      <4>1. x # player[u].session /\ sock'[x].uid = sock[x].uid
        BY <2>4, <2>10, <3>2
      <4>2. sock[x].uid \in Uid /\ sock[x].uid # u /\ player[sock[x].uid].session = x
        BY <1>s, <2>8, <2>10, <4>1
      <4> QED BY <2>3, <4>1, <4>2
    <3> QED BY <3>1, <3>2
  <2> QED BY <2>9, <2>10 DEF SessionsOwned
<1>6. ASSUME NEW s \in Sock, NEW u \in Uid, FirstLogin(s, u) PROVE SessionsOwned'
  <2>1. sock[s].open /\ sock[s].uid = NoUid /\ player[u].session = NoSock
    BY <1>6, <1>p, <1>s, NullAssumption DEF FirstLogin, CanLogin, LoggedIn
  <2>2. \A v \in Uid : /\ Exists(v)' <=> (Exists(v) \/ v = u)
                       /\ player'[v].session = IF v = u THEN s ELSE player[v].session
    BY <1>6, <1>t DEF FirstLogin, OnLogin, Nobody, Exists
  <2>3. \A x \in Sock : /\ sock'[x].open = sock[x].open
                        /\ sock'[x].uid = IF x = s THEN u ELSE sock[x].uid
    BY <1>6, <1>t DEF FirstLogin, Handle
  <2> QED BY <1>p, <1>s, <2>1, <2>2, <2>3, NullAssumption DEF SessionsOwned
<1>7. ASSUME NEW t \in Part, OnLoadEvent(t) PROVE SessionsOwned'
  <2>1. Head(loads[t]) \in Uid
    BY <1>7 DEF OnLoadEvent, Inv, TypeOK
  <2>2. \A v \in Uid : /\ player'[v].session = player[v].session
                       /\ Exists(v)' <=> Exists(v)
    <3>1. CASE Accepts(t, Head(loads[t]))
      <4>1. PICK away \in BOOLEAN :
              player' = [player EXCEPT ![Head(loads[t])] = Received(t, Head(loads[t]), away)]
        BY <1>7, <3>1 DEF OnLoadEvent
      <4>2. /\ Received(t, Head(loads[t]), away).session = player[Head(loads[t])].session
            /\ Received(t, Head(loads[t]), away).state # "none"
        BY <1>t, <2>1, <3>1 DEF Received, Accepts, Loading, Player
      <4>3. Exists(Head(loads[t]))
        BY <3>1 DEF Accepts, Loading, Exists
      <4> QED BY <1>t, <2>1, <4>1, <4>2, <4>3 DEF Exists
    <3>2. CASE ~Accepts(t, Head(loads[t]))
      BY <1>7, <3>2 DEF OnLoadEvent, Exists
    <3> QED BY <3>1, <3>2
  <2> QED BY <1>7, <1>p, <1>s, <2>2 DEF OnLoadEvent, SessionsOwned
<1>8. ASSUME NEW u \in Uid, PhpKill(u) PROVE SessionsOwned'
  <2>1. \A v \in Uid : /\ player'[v].session = IF v = u THEN NoSock ELSE player[v].session
                       /\ player'[v].state = player[v].state
    BY <1>8, <1>t DEF PhpKill, Player
  <2>2. \A x \in Sock : sock'[x] = IF x = player[u].session THEN Closed ELSE sock[x]
    BY <1>8, <1>t, NullAssumption DEF PhpKill
  <2> QED BY <1>p, <1>s, <2>1, <2>2, NullAssumption DEF SessionsOwned, Exists, Closed
<1>9. ASSUME NEW u \in Uid, EnterGame(u) \/ LeaveGame(u) \/ \E p \in Part : ModifyData(u, p)
      PROVE SessionsOwned'
  <2>1. /\ sock' = sock
        /\ \A v \in Uid : /\ player'[v].session = player[v].session
                          /\ player'[v].state = player[v].state
    <3>1. CASE EnterGame(u) \/ LeaveGame(u)
      <4>1. /\ sock' = sock
            /\ \E b \in BOOLEAN : player' = [player EXCEPT ![u] = [player[u] EXCEPT !.away = b]]
        BY <3>1 DEF EnterGame, LeaveGame
      <4> QED BY <1>t, <4>1 DEF Player
    <3>2. ASSUME NEW p \in Part, ModifyData(u, p)
          PROVE  /\ sock' = sock
                 /\ player' = [player EXCEPT ![u] =
                                [player[u] EXCEPT !.changed = player[u].changed \cup {p}]]
      BY <3>2 DEF ModifyData
    <3>3. ASSUME NEW p \in Part, ModifyData(u, p)
          PROVE  /\ sock' = sock
                 /\ \A v \in Uid : /\ player'[v].session = player[v].session
                                   /\ player'[v].state = player[v].state
      BY <3>2, <3>3, <1>t DEF Player
    <3> QED BY <1>9, <3>1, <3>3
  <2> QED BY <1>p, <1>s, <2>1 DEF SessionsOwned, Exists
<1>10. CASE ClockTick \/ FlushTick
  <2>1. /\ sock' = sock
        /\ \A v \in Uid : /\ player'[v].session = player[v].session
                          /\ player'[v].state = player[v].state
    <3>1. \A v \in Uid : /\ Aged(v).session = player[v].session
                         /\ Aged(v).state = player[v].state
                         /\ Noticed(v).session = player[v].session
                         /\ Noticed(v).state = player[v].state
      BY <1>t DEF Aged, Noticed, Player
    <3> QED BY <1>10, <1>t, <3>1 DEF ClockTick, FlushTick
  <2> QED BY <1>p, <1>s, <2>1 DEF SessionsOwned, Exists
<1>11. CASE CheckRecoverPlayer
  <2>1. \A v \in Uid : player'[v] = IF NeedRecover(v) THEN Nobody ELSE player[v]
    BY <1>11, <1>t DEF CheckRecoverPlayer
  <2>2. \A x \in Sock : sock'[x] = IF \E v \in Uid : NeedRecover(v) /\ player[v].session = x
                                  THEN Closed ELSE sock[x]
    BY <1>11, <1>t DEF CheckRecoverPlayer
  <2>3. \A x \in Sock : sock'[x].uid # NoUid =>
           /\ sock'[x] = sock[x]
           /\ ~NeedRecover(sock[x].uid)
    BY <1>s, <2>2 DEF Closed
  <2>4. ASSUME NEW v \in Uid, player'[v].session # NoSock
        PROVE  /\ player'[v] = player[v]
               /\ sock'[player[v].session] = sock[player[v].session]
    <3>1. player'[v] = player[v] /\ ~NeedRecover(v)
      BY <2>1, <2>4 DEF Nobody
    <3> QED BY <1>p, <2>2, <2>4, <3>1
  <2> QED BY <1>p, <1>s, <2>1, <2>3, <2>4 DEF SessionsOwned, Exists
<1>12. ASSUME UNCHANGED <<sock, player>> PROVE SessionsOwned'
  BY <1>12, <1>p, <1>s DEF SessionsOwned, Exists
<1> QED
  BY <1>1, <1>2, <1>3, <1>4, <1>5, <1>6, <1>7, <1>8, <1>9, <1>10, <1>11, <1>12
     DEF Next, QueryFails, CheckRepairServer, vars

(* No two connections act for one player, and none for a deleted player.   *)
THEOREM SessionsAreOwned == Spec => []SessionsOwned
<1>1. Init => Inv
  <2>1. Init => TypeOK
    BY NobodyType DEF Init, TypeOK
  <2>2. Init => SessionsOwned
    BY NobodyFields DEF Init, SessionsOwned
  <2> QED BY <2>1, <2>2 DEF Inv
<1>2. Inv /\ [Next]_vars => Inv'
  BY OwnedStep, TypeStep DEF Inv
<1>3. Inv => SessionsOwned
  BY DEF Inv
<1> QED BY <1>1, <1>2, <1>3, PTL DEF Spec

-----------------------------------------------------------------------------
(* Late replies.                                                           *)
LEMMA ChangedStep ==
  TypeOK /\ LoadingUnchanged /\ [Next]_vars =>
    /\ LoadingUnchanged'
    /\ \A u \in Uid, p \in Part :
         p \in player[u].changed =>
            \/ p \in player'[u].changed
            \/ ~Exists(u)'
            \/ Loading(u) /\ p = "account"
<1> SUFFICES ASSUME TypeOK, LoadingUnchanged, [Next]_vars
             PROVE  \A u \in Uid, p \in Part :
                       /\ Loading(u)' => player'[u].changed \subseteq {"account"}
                       /\ ~Exists(u)' => player'[u].changed = {}
                       /\ p \in player[u].changed =>
                             \/ p \in player'[u].changed
                             \/ ~Exists(u)'
                             \/ Loading(u) /\ p = "account"
  <2>1. "account" \in Part
    BY DEF Part
  <2> QED BY <2>1 DEF LoadingUnchanged
<1> SUFFICES ASSUME NEW u \in Uid, NEW p \in Part
             PROVE  /\ Loading(u)' => player'[u].changed \subseteq {"account"}
                    /\ ~Exists(u)' => player'[u].changed = {}
                    /\ p \in player[u].changed =>
                          \/ p \in player'[u].changed
                          \/ ~Exists(u)'
                          \/ Loading(u) /\ p = "account"
  OBVIOUS
<1> DEFINE Kept == /\ Loading(u)' => player'[u].changed \subseteq {"account"}
                   /\ ~Exists(u)' => player'[u].changed = {}
                   /\ p \in player[u].changed =>
                        \/ p \in player'[u].changed
                        \/ ~Exists(u)'
                        \/ Loading(u) /\ p = "account"
<1>t. player \in [Uid -> Player] /\ player[u] \in Player
  BY DEF TypeOK
<1>c. /\ Loading(u) => player[u].changed \subseteq {"account"}
      /\ ~Exists(u) => player[u].changed = {}
  BY DEF LoadingUnchanged
<1>n. Nobody.changed = {} /\ Nobody.state = "none"
  BY DEF Nobody
<1>1. ASSUME player'[u].changed = player[u].changed,
             Loading(u)' => Loading(u), Exists(u)' <=> Exists(u)
      PROVE  Kept
  BY <1>1, <1>c
<1>s. ASSUME player'[u].changed = player[u].changed, player'[u].state = player[u].state
      PROVE  Kept
  BY <1>1, <1>s DEF Loading, Exists
<1>2. ASSUME NEW s \in Sock,
             Connect(s) \/ ClientVanishes(s) \/ CloseClient(s) \/ HeartTimeout(s)
      PROVE  player'[u].changed = player[u].changed /\ player'[u].state = player[u].state
  BY <1>2, <1>t DEF Connect, ClientVanishes, CloseClient, HeartTimeout, DestroyObj, Detached, Player
<1>3. ASSUME NEW v \in Uid, PhpKill(v) \/ EnterGame(v) \/ LeaveGame(v)
      PROVE  player'[u].changed = player[u].changed /\ player'[u].state = player[u].state
  BY <1>3, <1>t DEF PhpKill, EnterGame, LeaveGame, Player
<1>4. ASSUME ClockTick \/ FlushTick
      PROVE  player'[u].changed = player[u].changed /\ player'[u].state = player[u].state
  <2>1. /\ Aged(u).changed = player[u].changed /\ Aged(u).state = player[u].state
        /\ Noticed(u).changed = player[u].changed /\ Noticed(u).state = player[u].state
    BY <1>t DEF Aged, Noticed, Player
  <2> QED BY <1>4, <1>t, <2>1 DEF ClockTick, FlushTick
<1>5. ASSUME NEW t \in Part, QueryFails(t) \/ CheckRepairServer \/ UNCHANGED vars
      PROVE  player'[u].changed = player[u].changed /\ player'[u].state = player[u].state
  BY <1>5 DEF QueryFails, CheckRepairServer, vars
<1>6. ASSUME NEW s \in Sock, NEW v \in Uid, LoginAgain(s) \/ TakeOver(s, v)
      PROVE  /\ player'[u].changed = player[u].changed
             /\ Loading(u)' => Loading(u)
             /\ Exists(u)' <=> Exists(u)
  <2>1. CASE LoginAgain(s)
    <3>1. sock[s].uid \in Uid /\ Loading(sock[s].uid)
      BY <2>1 DEF LoginAgain, LoggedIn, TypeOK, Handle
    <3> QED BY <2>1, <1>t, <3>1 DEF LoginAgain, OnLogin, Loading, Exists, Player
  <2>2. CASE TakeOver(s, v) /\ Playing(v)
    BY <2>2, <1>t DEF TakeOver, Loading, Exists, Player
  <2>3. CASE TakeOver(s, v) /\ ~Playing(v)
    <3>1. player' = [player EXCEPT ![v] = [[player[v] EXCEPT !.session = s]
                                             EXCEPT !.state = "load", !.loadAge = 0]]
      BY <2>3 DEF TakeOver, OnLogin
    <3>2. player[v] \in Player /\ Loading(v)
      BY <1>t, <2>3 DEF TakeOver, Exists, Playing, Loading, Player
    <3> QED BY <1>t, <3>1, <3>2 DEF Loading, Exists, Player
  <2> QED BY <1>6, <2>1, <2>2, <2>3
<1>7. ASSUME NEW s \in Sock, NEW v \in Uid, FirstLogin(s, v)
      PROVE  Kept
  <2>1. CASE v = u
    <3>1. player'[u].changed = {} /\ player'[u].state = "load" /\ ~Exists(u)
      BY <1>7, <1>t, <2>1 DEF FirstLogin, OnLogin, Nobody
    <3>2. player[u].changed = {} /\ Exists(u)'
      BY <3>1, <1>c DEF Exists
    <3> QED BY <3>1, <3>2
  <2>2. CASE v # u
    <3>1. player'[u] = player[u]
      BY <1>7, <1>t, <2>2 DEF FirstLogin, OnLogin
    <3> QED BY <3>1, <1>s
  <2> QED BY <2>1, <2>2
<1>8. ASSUME NEW t \in Part, OnLoadEvent(t)
      PROVE  Kept
  <2>1. Head(loads[t]) \in Uid
    BY <1>8 DEF OnLoadEvent, TypeOK
  <2>2. \/ player'[u] = player[u]
        \/ Loading(u) /\ \E away \in BOOLEAN : player'[u] = Received(t, u, away)
    BY <1>8, <1>t, <2>1 DEF OnLoadEvent, Accepts
  <2>3. ASSUME NEW away \in BOOLEAN, Loading(u), player'[u] = Received(t, u, away)
        PROVE  Kept
    <3>1. player'[u].changed = player[u].changed \ {t} /\ Exists(u)'
      BY <1>t, <2>3 DEF Received, Player, Loading, Exists
    <3> QED BY <3>1, <2>3, <1>c
  <2> QED BY <2>2, <2>3, <1>s
<1>9. ASSUME NEW v \in Uid, NEW t \in Part, ModifyData(v, t)
      PROVE  Kept
  <2>1. CASE v = u
    <3>1. /\ player'[u].changed = player[u].changed \cup {t}
          /\ player'[u].state = player[u].state
      BY <1>9, <1>t, <2>1 DEF ModifyData, Player
    <3>2. Loading(u) => t = "account"
      BY <1>9, <2>1 DEF ModifyData, CanModify, Loading, Playing
    <3>3. Exists(u) /\ Exists(u)'
      BY <1>9, <2>1, <3>1 DEF ModifyData, CanModify, Exists, Loading, Playing
    <3> QED BY <3>1, <3>2, <3>3, <1>c DEF Loading
  <2>2. CASE v # u
    <3>1. player'[u] = player[u]
      BY <1>9, <1>t, <2>2 DEF ModifyData
    <3> QED BY <3>1, <1>s
  <2> QED BY <2>1, <2>2
<1>10. ASSUME CheckRecoverPlayer
       PROVE  Kept
  <2>1. player'[u] = player[u] \/ player'[u] = Nobody
    BY <1>10, <1>t DEF CheckRecoverPlayer
  <2>2. ASSUME player'[u] = Nobody PROVE Kept
    BY <2>2, <1>n DEF Exists, Loading
  <2> QED BY <2>1, <2>2, <1>s
<1> QED
  <2>1. CASE \E s \in Sock : Connect(s) \/ ClientVanishes(s) \/ CloseClient(s) \/ HeartTimeout(s)
    BY <2>1, <1>s, <1>2
  <2>2. CASE \E v \in Uid : PhpKill(v) \/ EnterGame(v) \/ LeaveGame(v)
    BY <2>2, <1>s, <1>3
  <2>3. CASE ClockTick \/ FlushTick
    BY <2>3, <1>s, <1>4
  <2>4. CASE (\E t \in Part : QueryFails(t)) \/ CheckRepairServer \/ UNCHANGED vars
    BY <2>4, <1>s, <1>5
  <2>5. CASE \E s \in Sock : LoginAgain(s) \/ \E v \in Uid : TakeOver(s, v)
    BY <2>5, <1>6, <1>1
  <2>6. CASE \E s \in Sock, v \in Uid : FirstLogin(s, v)
    BY <2>6, <1>7
  <2>7. CASE \E t \in Part : OnLoadEvent(t)
    BY <2>7, <1>8
  <2>8. CASE \E v \in Uid : \E t \in Part : ModifyData(v, t)
    BY <2>8, <1>9
  <2>9. CASE CheckRecoverPlayer
    BY <2>9, <1>10
  <2> QED BY <2>1, <2>2, <2>3, <2>4, <2>5, <2>6, <2>7, <2>8, <2>9 DEF Next

(* A late reply never puts back what the lobby has changed, but for the    *)
(* account of an object that is still loading.                             *)
THEOREM ChangesAreKept == Spec => ChangesKept
<1>1. Init => LoadingUnchanged
  BY NobodyFields DEF Init, LoadingUnchanged, Loading, Exists
<1>2. TypeOK /\ LoadingUnchanged /\ [Next]_vars => LoadingUnchanged'
  BY ChangedStep
<1>3. TypeOK /\ LoadingUnchanged /\ [Next]_vars =>
        [\A u \in Uid, p \in Part :
           p \in player[u].changed =>
              \/ p \in player'[u].changed
              \/ ~Exists(u)'
              \/ Loading(u) /\ p = "account"]_vars
  BY ChangedStep
<1> QED BY <1>1, <1>2, <1>3, TypeCorrect, PTL DEF Spec, ChangesKept

-----------------------------------------------------------------------------
(* The recovery timer.  It is the only handler that deletes an object, so  *)
(* the others are told apart from it by what they do to one player's state *)
(* and nothing else.                                                       *)
LEMMA OnlyTimerDeletes ==
  ASSUME TypeOK, [Next]_vars, NEW u \in Uid, Exists(u), ~CheckRecoverPlayer
  PROVE  Exists(u)'
<1>t. player \in [Uid -> Player] /\ player[u] \in Player
  BY DEF TypeOK
<1>1. ASSUME player'[u].state = player[u].state PROVE Exists(u)'
  BY <1>1 DEF Exists
<1>2. CASE \E s \in Sock : Connect(s) \/ ClientVanishes(s) \/ CloseClient(s) \/ HeartTimeout(s)
  <2>1. player'[u].state = player[u].state
    BY <1>2, <1>t DEF Connect, ClientVanishes, CloseClient, HeartTimeout, DestroyObj,
                      Detached, Player
  <2> QED BY <2>1, <1>1
<1>3. CASE \E v \in Uid : PhpKill(v) \/ EnterGame(v) \/ LeaveGame(v)
  <2>1. ASSUME NEW v \in Uid, PhpKill(v) \/ EnterGame(v) \/ LeaveGame(v)
        PROVE  player'[u].state = player[u].state
    <3>1. CASE PhpKill(v)
      BY <3>1, <1>t DEF PhpKill, Player
    <3>2. CASE EnterGame(v)
      BY <3>2, <1>t DEF EnterGame, Player
    <3>3. CASE LeaveGame(v)
      BY <3>3, <1>t DEF LeaveGame, Player
    <3> QED BY <2>1, <3>1, <3>2, <3>3
  <2> QED BY <1>3, <2>1, <1>1
<1>4. CASE ClockTick \/ FlushTick
  <2>1. Aged(u).state = player[u].state /\ Noticed(u).state = player[u].state
    BY <1>t DEF Aged, Noticed, Player
  <2> QED BY <1>4, <1>t, <2>1, <1>1 DEF ClockTick, FlushTick
<1>5. CASE (\E t \in Part : QueryFails(t)) \/ CheckRepairServer \/ UNCHANGED vars
  BY <1>5 DEF QueryFails, CheckRepairServer, vars, Exists
<1>6. ASSUME NEW v \in Uid, NEW p \in Player, OnLogin(v, p) PROVE Exists(u)'
  BY <1>6, <1>t DEF OnLogin, Exists, Player
<1>7. CASE \E s \in Sock : LoginAgain(s)
  <2>1. PICK s \in Sock : LoginAgain(s)
    BY <1>7
  <2>2. sock[s].uid \in Uid
    BY <2>1 DEF LoginAgain, LoggedIn, TypeOK, Handle
  <2> QED BY <2>1, <2>2, <1>t, <1>6 DEF LoginAgain
<1>8. CASE \E s \in Sock, v \in Uid : TakeOver(s, v)
  <2>1. PICK s \in Sock, v \in Uid : TakeOver(s, v)
    BY <1>8
  <2>2. [player[v] EXCEPT !.session = s] \in Player
    BY <1>t, SessionUpdate
  <2>3. CASE Playing(v)
    BY <2>1, <2>3, <1>t DEF TakeOver, Exists, Player
  <2> QED BY <2>1, <2>2, <2>3, <1>6 DEF TakeOver
<1>9. CASE \E s \in Sock, v \in Uid : FirstLogin(s, v)
  <2>1. PICK s \in Sock, v \in Uid : FirstLogin(s, v)
    BY <1>9
  <2>2. [Nobody EXCEPT !.session = s] \in Player
    BY NobodyType, SessionUpdate
  <2> QED BY <2>1, <2>2, <1>6 DEF FirstLogin
<1>10. CASE \E t \in Part : OnLoadEvent(t)
  <2>1. PICK t \in Part : OnLoadEvent(t)
    BY <1>10
  <2>2. Head(loads[t]) \in Uid
    BY <2>1 DEF OnLoadEvent, TypeOK
  <2>3. \A away \in BOOLEAN : Received(t, u, away).state # "none"
    BY <1>t DEF Received, Exists, Player
  <2> QED BY <2>1, <2>2, <2>3, <1>t DEF OnLoadEvent, Exists
<1>11. CASE \E v \in Uid : \E t \in Part : ModifyData(v, t)
  <2>1. ASSUME NEW v \in Uid, NEW t \in Part, ModifyData(v, t)
        PROVE  player'[u].state = player[u].state
    BY <2>1, <1>t DEF ModifyData, Player
  <2> QED BY <1>11, <2>1, <1>1
<1> QED
  BY <1>2, <1>3, <1>4, <1>5, <1>7, <1>8, <1>9, <1>10, <1>11 DEF Next

LEMMA ConnectedStep ==
  ASSUME TypeOK, [Next]_vars, NEW u \in Uid,
         Playing(u), player[u].session # NoSock, ~player[u].kicked, status = "running"
  PROVE  Exists(u)'
<1>1. Exists(u)
  BY DEF Exists, Playing
<1>2. ~NeedRecover(u)
  BY DEF NeedRecover, OfflineTooLong, Loading, Playing
<1>3. ASSUME CheckRecoverPlayer PROVE Exists(u)'
  BY <1>1, <1>2, <1>3 DEF CheckRecoverPlayer, Exists
<1> QED BY <1>1, <1>3, OnlyTimerDeletes

(* Outside maintenance a player that plays on an open connection and was   *)
(* not kicked is never deleted, whatever its earlier disconnections.       *)
THEOREM ConnectedAreKept == Spec => ConnectedKept
<1>1. TypeOK /\ [Next]_vars =>
        [\A u \in Uid :
           Playing(u) /\ player[u].session # NoSock /\ ~player[u].kicked /\ status = "running"
              => Exists(u)']_vars
  BY ConnectedStep
<1> QED BY <1>1, TypeCorrect, PTL DEF Spec, ConnectedKept
=============================================================================
