------------------------- MODULE AccountSyncProofs -------------------------
(***************************************************************************)
(* The account in its four places: its types, that the lobby's object is   *)
(* what the row will be, and that the game server's copy goes on agreeing, *)
(* for every set of amounts and every bound.                               *)
(***************************************************************************)
EXTENDS AccountSync, SumsProofs, SequenceTheorems

-----------------------------------------------------------------------------
(* What a sequence of messages or requests carries, and how that changes   *)
(* when one is sent and when one is taken.                                 *)

LEMMA AmountsOfType ==
    ASSUME NEW M, NEW k, \A m \in M : m.kind = k => m.amount \in Int,
           NEW s \in Seq(M)
    PROVE  AmountsOf(s, k) \in [1 .. Len(s) -> Int]
<1>1. \A i \in 1 .. Len(s) : s[i] \in M BY ElementOfSeq
<1> QED BY <1>1 DEF AmountsOf

LEMMA CarriedType ==
    ASSUME NEW M, NEW k, \A m \in M : m.kind = k => m.amount \in Int,
           NEW s \in Seq(M)
    PROVE  Carried(s, k) \in Int
<1>1. AmountsOf(s, k) \in [1 .. Len(s) -> Int] BY AmountsOfType
<1>2. Len(s) \in Nat BY LenProperties
<1>3. IsFiniteSet(1 .. Len(s)) BY <1>2, FS_Interval
<1> QED BY <1>1, <1>3, NetType DEF Carried

LEMMA CarriesNothing ==
    ASSUME NEW M, NEW k, \A m \in M : m.kind = k => m.amount \in Int,
           NEW s \in Seq(M), \A i \in 1 .. Len(s) : s[i].kind # k
    PROVE  Carried(s, k) = 0
<1>1. AmountsOf(s, k) \in [1 .. Len(s) -> Int] BY AmountsOfType
<1>2. \A i \in 1 .. Len(s) : AmountsOf(s, k)[i] = 0 BY DEF AmountsOf
<1> QED BY <1>1, <1>2, NetOfZeros DEF Carried

LEMMA CarriesGains ==
    ASSUME NEW M, NEW k, \A m \in M : m.kind = k => m.amount \in Int,
           NEW s \in Seq(M),
           \A i \in 1 .. Len(s) : s[i].kind = k => s[i].amount >= 0
    PROVE  Carried(s, k) >= 0
<1>1. AmountsOf(s, k) \in [1 .. Len(s) -> Int] BY AmountsOfType
<1>2. \A i \in 1 .. Len(s) : AmountsOf(s, k)[i] >= 0 BY DEF AmountsOf
<1>3. Len(s) \in Nat BY LenProperties
<1>4. IsFiniteSet(1 .. Len(s)) BY <1>3, FS_Interval
<1> QED BY <1>1, <1>2, <1>4, NetOfGains DEF Carried

LEMMA CarriedAppend ==
    ASSUME NEW M, NEW k, \A m \in M : m.kind = k => m.amount \in Int,
           NEW s \in Seq(M), NEW m \in M
    PROVE  /\ m.kind = k => Carried(Append(s, m), k) = Carried(s, k) + m.amount
           /\ m.kind # k => Carried(Append(s, m), k) = Carried(s, k)
<1> DEFINE n == Len(s)
           t == Append(s, m)
           f == AmountsOf(s, k)
           g == AmountsOf(t, k)
<1>1. n \in Nat BY LenProperties
<1>2. /\ t \in Seq(M) /\ Len(t) = n + 1
      /\ \A i \in 1 .. n : t[i] = s[i]
      /\ t[n + 1] = m
  BY AppendProperties
<1>3. f \in [1 .. n -> Int] BY AmountsOfType
<1>4. g \in [1 .. n + 1 -> Int]
  <2> HIDE DEF t, g, n
  <2>1. AmountsOf(t, k) \in [1 .. Len(t) -> Int] BY <1>2, AmountsOfType
  <2> QED BY <2>1, <1>2 DEF g
<1>5. \A i \in 1 .. n : g[i] = f[i] BY <1>1, <1>2 DEF AmountsOf
<1>6. /\ m.kind = k => g[n + 1] = m.amount
      /\ m.kind # k => g[n + 1] = 0
  BY <1>1, <1>2 DEF AmountsOf
<1>7. Carried(s, k) \in Int BY CarriedType
<1>8. Carried(t, k) = NetSum(g) /\ Carried(s, k) = NetSum(f) BY DEF Carried
<1> HIDE DEF n, t, f, g
<1>9. NetSum(g) = NetSum(f) + g[n + 1] BY <1>1, <1>3, <1>4, <1>5, NetAppended
<1>10. /\ m.kind = k => Carried(t, k) = Carried(s, k) + m.amount
       /\ m.kind # k => Carried(t, k) = Carried(s, k)
  BY <1>6, <1>7, <1>8, <1>9
<1> QED BY <1>10 DEF t

LEMMA CarriedTail ==
    ASSUME NEW M, NEW k, \A m \in M : m.kind = k => m.amount \in Int,
           NEW s \in Seq(M), s # <<>>
    PROVE  /\ Head(s).kind = k => Carried(s, k) = Head(s).amount + Carried(Tail(s), k)
           /\ Head(s).kind # k => Carried(s, k) = Carried(Tail(s), k)
<1> DEFINE t == Tail(s)
           n == Len(t)
           f == AmountsOf(s, k)
           g == AmountsOf(t, k)
<1>1. /\ t \in Seq(M) /\ n = Len(s) - 1
      /\ \A i \in 1 .. n : t[i] = s[i + 1]
  BY HeadTailProperties
<1>2. n \in Nat /\ Len(s) = n + 1 BY <1>1, LenProperties
<1>3. Head(s) = s[1] OBVIOUS
<1>4. f \in [1 .. n + 1 -> Int] BY <1>2, AmountsOfType
<1>5. g \in [1 .. n -> Int]
  <2> HIDE DEF t, g
  <2>1. AmountsOf(t, k) \in [1 .. Len(t) -> Int] BY <1>1, AmountsOfType
  <2> QED BY <2>1 DEF g
<1>6. \A i \in 1 .. n : g[i] = f[i + 1] BY <1>1, <1>2 DEF AmountsOf
<1>7. /\ s[1].kind = k => f[1] = s[1].amount
      /\ s[1].kind # k => f[1] = 0
  BY <1>2 DEF AmountsOf
<1>8. Carried(t, k) = NetSum(g) /\ Carried(s, k) = NetSum(f) BY DEF Carried
<1>9. Carried(t, k) \in Int
  <2> HIDE DEF t
  <2> QED BY <1>1, CarriedType
<1> HIDE DEF n, t, f, g
<1>10. NetSum(f) = f[1] + NetSum(g) BY <1>2, <1>4, <1>5, <1>6, NetShifted
<1>11. /\ s[1].kind = k => Carried(s, k) = s[1].amount + Carried(t, k)
       /\ s[1].kind # k => Carried(s, k) = Carried(t, k)
  BY <1>7, <1>8, <1>9, <1>10
<1> QED BY <1>3, <1>11 DEF t

(* The messages on the way, up to the n-th.                                *)
LEMMA PrefixOfAppend ==
    ASSUME NEW M, NEW s \in Seq(M), NEW m \in M, NEW n \in 0 .. Len(s)
    PROVE  /\ SubSeq(s, 1, n) \in Seq(M)
           /\ SubSeq(Append(s, m), 1, n) = SubSeq(s, 1, n)
<1> DEFINE t == Append(s, m)
<1>1. /\ Len(s) \in Nat
      /\ t \in Seq(M) /\ Len(t) = Len(s) + 1
      /\ \A i \in 1 .. Len(s) : t[i] = s[i]
  BY LenProperties, AppendProperties
<1>2. \A i \in 1 .. n : s[i] \in M /\ t[i] = s[i] BY <1>1, ElementOfSeq
<1> HIDE DEF t
<1>3. /\ SubSeq(s, 1, n) \in Seq(M) /\ Len(SubSeq(s, 1, n)) = n
      /\ \A i \in 1 .. n : SubSeq(s, 1, n)[i] = s[i]
  BY <1>1, <1>2, SubSeqProperties
<1>4. /\ SubSeq(t, 1, n) \in Seq(M) /\ Len(SubSeq(t, 1, n)) = n
      /\ \A i \in 1 .. n : SubSeq(t, 1, n)[i] = t[i]
  BY <1>1, <1>2, SubSeqProperties
<1>5. SubSeq(t, 1, n) = SubSeq(s, 1, n) BY <1>2, <1>3, <1>4, SeqEqual
<1> QED BY <1>3, <1>5 DEF t

LEMMA PrefixOfTail ==
    ASSUME NEW M, NEW s \in Seq(M), s # <<>>, NEW n \in 0 .. Len(Tail(s))
    PROVE  /\ n + 1 \in 0 .. Len(s)
           /\ SubSeq(s, 1, n + 1) \in Seq(M) /\ SubSeq(s, 1, n + 1) # <<>>
           /\ Head(SubSeq(s, 1, n + 1)) = Head(s)
           /\ Tail(SubSeq(s, 1, n + 1)) = SubSeq(Tail(s), 1, n)
<1> DEFINE t == Tail(s)
           u == SubSeq(s, 1, n + 1)
<1>1. /\ Len(s) \in Nat
      /\ t \in Seq(M) /\ Len(t) = Len(s) - 1
      /\ \A i \in 1 .. Len(t) : t[i] = s[i + 1]
  BY LenProperties, HeadTailProperties
<1>2. n \in Nat /\ n + 1 \in 0 .. Len(s) BY <1>1
<1>3. \A i \in 1 .. n + 1 : s[i] \in M BY <1>1, <1>2, ElementOfSeq
<1>4. /\ u \in Seq(M) /\ Len(u) = n + 1
      /\ \A i \in 1 .. n + 1 : u[i] = s[i]
  BY <1>2, <1>3, SubSeqProperties
<1>5. \A i \in 1 .. n : t[i] \in M BY <1>1, <1>2, ElementOfSeq
<1>6. /\ SubSeq(t, 1, n) \in Seq(M) /\ Len(SubSeq(t, 1, n)) = n
      /\ \A i \in 1 .. n : SubSeq(t, 1, n)[i] = t[i]
  <2> HIDE DEF t
  <2> QED BY <1>2, <1>5, SubSeqProperties
<1> HIDE DEF t, u
<1>7. u # <<>> BY <1>2, <1>4
<1>8. /\ Tail(u) \in Seq(M) /\ Len(Tail(u)) = n
      /\ \A i \in 1 .. n : Tail(u)[i] = u[i + 1]
  BY <1>2, <1>4, <1>7, HeadTailProperties
<1>9. \A i \in 1 .. n : Tail(u)[i] = SubSeq(t, 1, n)[i]
  <2> DEFINE w == SubSeq(t, 1, n)
  <2> SUFFICES ASSUME NEW i \in 1 .. n PROVE Tail(u)[i] = w[i] OBVIOUS
  <2>1. w[i] = t[i] BY <1>6
  <2>2. i \in 1 .. Len(t) /\ i + 1 \in 1 .. n + 1 BY <1>1, <1>2
  <2> HIDE DEF w
  <2>3. t[i] = s[i + 1] BY ONLY <1>1, <2>2
  <2>4. u[i + 1] = s[i + 1] BY ONLY <1>4, <2>2
  <2>5. Tail(u)[i] = u[i + 1] BY <1>8
  <2> QED BY ONLY <2>1, <2>3, <2>4, <2>5
<1>10. Tail(u) = SubSeq(t, 1, n) BY <1>6, <1>8, <1>9, SeqEqual
<1>11. Head(u) = u[1] /\ Head(s) = s[1] OBVIOUS
<1>12. Head(u) = Head(s) BY <1>2, <1>4, <1>11
<1> QED BY <1>2, <1>4, <1>7, <1>10, <1>12 DEF t, u

-----------------------------------------------------------------------------
(* Types.                                                                  *)

LEMMA MessageTypes ==
    /\ Load \in Request /\ Load.kind = "load"
    /\ \A v \in Int : Delta(v) \in Request /\ Delta(v).kind = "delta" /\ Delta(v).amount = v
    /\ \A v \in Int : Change(v) \in ToLobby /\ Change(v).kind = "change" /\ Change(v).amount = v
    /\ \A m \in Request : m.kind = "delta" => m.amount \in Int
    /\ \A m \in Request : m.kind = "load" => m = Load
    /\ \A m \in Request : m.kind \in {"delta", "load"}
    /\ \A m \in ToGame : m.amount \in Int /\ m.kind \in {"enter", "update"}
    /\ \A m \in ToLobby : m.amount \in Int /\ m.kind \in {"change", "leave"}
  BY DEF Load, Request, Delta, Change, ToLobby, ToGame

LEMMA ClampedType ==
    ASSUME NEW coin \in Int, NEW v \in Int
    PROVE  /\ Clamped(coin, v) \in Int
           /\ coin + v >= 0 => Clamped(coin, v) = v
           /\ coin >= 0 => coin + Clamped(coin, v) >= 0
           /\ CanChange(coin, v) /\ coin >= 0 => coin + v >= 0
           /\ CanChange(coin, v) => coin + Clamped(coin, v) >= 0
  BY DEF Clamped, CanChange

LEMMA LobbyTypes ==
    ASSUME NEW l \in Lobby
    PROVE  /\ l.coin \in Int /\ l.away \in BOOLEAN
           /\ l.state \in {"none", "load", "got", "play"}
           /\ l.state = "none" => l = Gone
<1>1. CASE l \in [state : {"load", "got", "play"}, coin : Int, away : BOOLEAN]
  BY <1>1 DEF Gone
<1>2. CASE l = Gone BY <1>2 DEF Gone
<1> QED BY <1>1, <1>2 DEF Lobby

LEMMA GoneIs == Gone \in Lobby /\ Gone.state = "none" /\ ~Gone.away /\ Gone.coin = 0
  BY DEF Lobby, Gone

LEMMA GoneOnly ==
    /\ Gone \in [state : {"none"}, coin : {0}, away : {FALSE}]
    /\ \A l \in [state : {"none"}, coin : {0}, away : {FALSE}] : l = Gone
<1>1. Gone \in [state : {"none"}, coin : {0}, away : {FALSE}] BY DEF Gone
<1>2. ASSUME NEW l \in [state : {"none"}, coin : {0}, away : {FALSE}]
      PROVE  l = Gone
  <2>1. l = [state |-> l.state, coin |-> l.coin, away |-> l.away] OBVIOUS
  <2>2. l.state = "none" /\ l.coin = 0 /\ l.away = FALSE OBVIOUS
  <2> QED BY <2>1, <2>2 DEF Gone
<1> QED BY <1>1, <1>2

(* What is done to a lobby's player object.                                *)
LEMMA LobbyCoin ==
    ASSUME NEW l \in Lobby, l.state # "none", NEW c \in Int
    PROVE  /\ [l EXCEPT !.coin = c] \in Lobby
           /\ [l EXCEPT !.coin = c].coin = c
           /\ [l EXCEPT !.coin = c].state = l.state
           /\ [l EXCEPT !.coin = c].away = l.away
  BY DEF Lobby, Gone

LEMMA LobbyAway ==
    ASSUME NEW l \in Lobby, NEW a \in BOOLEAN, a => l.state # "none"
    PROVE  /\ [l EXCEPT !.away = a] \in Lobby
           /\ [l EXCEPT !.away = a].coin = l.coin
           /\ [l EXCEPT !.away = a].state = l.state
           /\ [l EXCEPT !.away = a].away = a
<1>1. CASE l \in [state : {"load", "got", "play"}, coin : Int, away : BOOLEAN]
  <2>1. [l EXCEPT !.away = a] \in [state : {"load", "got", "play"}, coin : Int, away : BOOLEAN]
    BY <1>1
  <2> QED BY <1>1, <2>1 DEF Lobby
<1>2. CASE l = Gone
  <2>1. ~a BY <1>2 DEF Gone
  <2>2. l \in [state : {"none"}, coin : {0}, away : {FALSE}] BY <1>2, GoneOnly
  <2>3. [l EXCEPT !.away = a] \in [state : {"none"}, coin : {0}, away : {FALSE}]
    BY <2>1, <2>2
  <2>4. [l EXCEPT !.away = a] = Gone BY <2>3, GoneOnly
  <2> QED BY <1>2, <2>1, <2>4 DEF Lobby, Gone
<1> QED BY <1>1, <1>2 DEF Lobby

LEMMA LobbyGot ==
    ASSUME NEW l \in Lobby, l.state # "none", NEW c \in Int
    PROVE  /\ [l EXCEPT !.state = "got", !.coin = c] \in Lobby
           /\ [l EXCEPT !.state = "got", !.coin = c].coin = c
           /\ [l EXCEPT !.state = "got", !.coin = c].state = "got"
<1>1. l \in [state : {"load", "got", "play"}, coin : Int, away : BOOLEAN]
  BY DEF Lobby, Gone
<1>2. [l EXCEPT !.state = "got", !.coin = c]
        \in [state : {"load", "got", "play"}, coin : Int, away : BOOLEAN]
  BY <1>1
<1> QED BY <1>1, <1>2 DEF Lobby

LEMMA ReadyIs ==
    ASSUME NEW c \in Int, redis \in BOOLEAN
    PROVE  /\ Ready(c) \in Lobby /\ Ready(c).coin = c /\ Ready(c).state = "play"
  BY DEF Ready, Lobby

LEMMA LoginIs ==
    /\ [Gone EXCEPT !.state = "load"] \in Lobby
    /\ [Gone EXCEPT !.state = "load"].state = "load"
<1>1. Gone \in [state : {"none"}, coin : Int, away : BOOLEAN] BY DEF Gone
<1>2. \A l \in [state : {"none"}, coin : Int, away : BOOLEAN] :
        /\ [l EXCEPT !.state = "load"] \in
             [state : {"load", "got", "play"}, coin : Int, away : BOOLEAN]
        /\ [l EXCEPT !.state = "load"].state = "load"
  OBVIOUS
<1> QED BY <1>1, <1>2 DEF Lobby

LEMMA GameTypes ==
    ASSUME NEW g \in Game
    PROVE  /\ g.coin \in Int /\ g.locked \in Nat
           /\ g.here \in BOOLEAN /\ g.owed \in BOOLEAN
           /\ g.here => ~g.owed
           /\ ~g.here => g.coin = 0 /\ g.locked = 0
<1>1. CASE g \in [here : {TRUE}, coin : Int, locked : Nat, owed : {FALSE}]
  <2>1. g.here = TRUE /\ g.owed = FALSE /\ g.coin \in Int /\ g.locked \in Nat BY <1>1
  <2> QED BY <2>1
<1>2. CASE g \in [here : {FALSE}, coin : {0}, locked : {0}, owed : BOOLEAN]
  <2>1. g.here = FALSE /\ g.coin = 0 /\ g.locked = 0 /\ g.owed \in BOOLEAN BY <1>2
  <2>2. 0 \in Int /\ 0 \in Nat OBVIOUS
  <2> QED BY <2>1, <2>2, Zenon
<1> QED BY <1>1, <1>2 DEF Game

LEMMA GameCoin ==
    ASSUME NEW g \in Game, g.here, NEW c \in Int
    PROVE  /\ [g EXCEPT !.coin = c] \in Game
           /\ [g EXCEPT !.coin = c].coin = c
           /\ [g EXCEPT !.coin = c].locked = g.locked
           /\ [g EXCEPT !.coin = c].here
<1>1. g \in [here : {TRUE}, coin : Int, locked : Nat, owed : {FALSE}] BY DEF Game
<1>2. [g EXCEPT !.coin = c] \in [here : {TRUE}, coin : Int, locked : Nat, owed : {FALSE}]
  BY <1>1
<1> QED BY <1>1, <1>2 DEF Game

LEMMA GameHere ==
    ASSUME NEW c \in Int, NEW k \in Nat
    PROVE  /\ Here(c, k) \in Game
           /\ Here(c, k).coin = c /\ Here(c, k).locked = k
  BY DEF Game, Here

LEMMA GamePaid ==
    ASSUME NEW g \in Game, ~g.here
    PROVE  [g EXCEPT !.owed = FALSE] \in Game
<1>1. g \in [here : {FALSE}, coin : {0}, locked : {0}, owed : BOOLEAN] BY DEF Game
<1>2. [g EXCEPT !.owed = FALSE] \in [here : {FALSE}, coin : {0}, locked : {0}, owed : BOOLEAN]
  BY <1>1
<1> QED BY <1>2 DEF Game

LEMMA GameEntered ==
    ASSUME NEW g \in Game, game = g, NEW c \in Int
    PROVE  Entered(c) \in Game
  BY DEF Game, Entered, Here

LEMMA GameUpdated ==
    ASSUME game \in Game, NEW v \in Int
    PROVE  Updated(v) \in Game
<1>1. CASE game.here
  <2>3. game.coin \in Int BY GameTypes
  <2>4. Clamped(game.coin, v) \in Int BY <2>3, ClampedType
  <2>1. game.coin + Clamped(game.coin, v) \in Int BY <2>3, <2>4
  <2>2. [game EXCEPT !.coin = @ + Clamped(@, v)] \in Game BY <1>1, <2>1, GameCoin
  <2> QED BY <1>1, <2>2 DEF Updated
<1>2. CASE ~game.here BY <1>2 DEF Updated
<1> QED BY <1>1, <1>2

LEMMA GameLeft ==
    ASSUME NEW owed \in BOOLEAN
    PROVE  Away(owed) \in Game /\ ~Away(owed).here
  BY DEF Game, Away

-----------------------------------------------------------------------------
(* The two ways of changing an account.                                    *)
LEMMA SyncChangeType ==
    ASSUME TypeOK, NEW v \in Int, Exists, SyncChange(v)
    PROVE  /\ db' \in Int /\ queue' \in Seq(Request) /\ replies' \in Seq(Int)
           /\ lobby' \in Lobby /\ raced' \in BOOLEAN
           /\ lobby'.state = lobby.state /\ lobby'.away = lobby.away
           /\ lobby'.coin = lobby.coin + Clamped(lobby.coin, v)
           /\ queue' = Append(queue, Delta(Clamped(lobby.coin, v)))
           /\ db' = db /\ replies' = replies
           /\ raced' = (raced \/ Loading)
<1> DEFINE c == Clamped(lobby.coin, v)
           l == lobby
<1>1. lobby \in Lobby /\ lobby.state # "none" BY DEF TypeOK, Exists
<1>2. lobby.coin \in Int /\ c \in Int BY <1>1, LobbyTypes, ClampedType
<1>3. /\ lobby' = [lobby EXCEPT !.coin = lobby.coin + c]
      /\ queue' = Append(queue, Delta(c))
      /\ raced' = (raced \/ Loading)
      /\ db' = db /\ replies' = replies
  BY DEF SyncChange
<1> HIDE DEF c
<1>4. /\ lobby' \in Lobby /\ lobby'.state = lobby.state /\ lobby'.away = lobby.away
      /\ lobby'.coin = lobby.coin + c
  BY <1>1, <1>2, <1>3, LobbyCoin
<1>5. queue' \in Seq(Request) BY <1>2, <1>3, MessageTypes, AppendProperties DEF TypeOK
<1> QED BY <1>3, <1>4, <1>5 DEF TypeOK, c

LEMMA AtomChangeType ==
    ASSUME TypeOK, NEW v \in Int, AtomChange(v)
    PROVE  /\ db' \in Int /\ queue' = queue /\ replies' = replies
           /\ raced' \in BOOLEAN
           /\ raced' = (raced \/ Loading \/ LoadOutstanding)
           /\ AtomPasses(v) => db' = db + v
  BY DEF TypeOK, AtomChange

LEMMA AmountsAre == \A v \in Amounts : v \in Int
  BY AmountAssumption

LEMMA TypeInit == Init => TypeOK
<1> SUFFICES ASSUME Init PROVE TypeOK OBVIOUS
<1>1. column \in Columns /\ db \in Int BY AmountAssumption DEF Init
<1>2. queue \in Seq(Request) /\ replies \in Seq(Int) BY EmptySeq DEF Init
<1>3. toGame \in Seq(ToGame) /\ toLobby \in Seq(ToLobby) BY EmptySeq DEF Init
<1>4. lobby \in Lobby BY GoneIs DEF Init
<1>5. game \in Game BY GameLeft DEF Init
<1> QED BY <1>1, <1>2, <1>3, <1>4, <1>5 DEF Init, TypeOK

LEMMA TypeOnProcessEvent ==
    ASSUME TypeOK, OnProcessEvent, UNCHANGED column
    PROVE  TypeOK'
<1>1. /\ queue # <<>> /\ queue \in Seq(Request) BY DEF OnProcessEvent, TypeOK
<1>2. Head(queue) \in Request /\ Tail(queue) \in Seq(Request)
  BY <1>1, HeadTailProperties
<1>3. queue' \in Seq(Request) BY <1>2 DEF OnProcessEvent
<1>4. /\ Head(queue).kind = "delta" => Head(queue).amount \in Int
  BY <1>2, MessageTypes
<1>5. Append(replies, db) \in Seq(Int) BY AppendProperties DEF TypeOK
<1>6. db \in Int /\ replies \in Seq(Int) BY DEF TypeOK
<1>7. \/ Head(queue).kind = "delta" /\ db' = db + Head(queue).amount /\ replies' = replies
      \/ Head(queue).kind = "load" /\ db' = db /\ replies' = Append(replies, db)
  BY DEF OnProcessEvent
<1>8. db' \in Int
  <2>1. CASE Head(queue).kind = "delta" /\ db' = db + Head(queue).amount
    BY <1>4, <1>6, <2>1
  <2>2. CASE db' = db BY <1>6, <2>2
  <2> QED BY <1>7, <2>1, <2>2
<1>9. replies' \in Seq(Int) BY <1>5, <1>6, <1>7
<1> QED BY <1>3, <1>8, <1>9 DEF OnProcessEvent, TypeOK, channels

LEMMA TypeLogin ==
    ASSUME TypeOK, Login, UNCHANGED column
    PROVE  TypeOK'
<1>1. lobby' \in Lobby BY LoginIs DEF Login, TypeOK
<1>2. queue' \in Seq(Request) BY MessageTypes, AppendProperties DEF Login, TypeOK
<1>3. raced' \in BOOLEAN BY DEF Login, TypeOK, LoadOutstanding
<1> QED BY <1>1, <1>2, <1>3 DEF Login, TypeOK, channels

LEMMA TypeOnLoadAccountDataEvent ==
    ASSUME TypeOK, OnLoadAccountDataEvent, UNCHANGED column
    PROVE  TypeOK'
<1>1. Head(replies) \in Int /\ Tail(replies) \in Seq(Int)
  BY HeadTailProperties DEF OnLoadAccountDataEvent, TypeOK
<1>2. lobby \in Lobby /\ redis \in BOOLEAN BY DEF TypeOK
<1>3. Loading => lobby.state # "none" BY DEF Loading
<1>4. Loading => [lobby EXCEPT !.state = "got", !.coin = Head(replies)] \in Lobby
  BY <1>1, <1>2, <1>3, LobbyGot
<1>5. Ready(Head(replies)) \in Lobby BY <1>1, <1>2, ReadyIs
<1>6. lobby' \in Lobby BY <1>2, <1>4, <1>5 DEF OnLoadAccountDataEvent
<1> QED BY <1>1, <1>6 DEF OnLoadAccountDataEvent, TypeOK, channels

LEMMA TypeOnLoadOtherDataEvent ==
    ASSUME TypeOK, OnLoadOtherDataEvent, UNCHANGED column
    PROVE  TypeOK'
<1>1. lobby.coin \in Int BY LobbyTypes DEF TypeOK
<1>2. lobby' \in Lobby BY <1>1, ReadyIs DEF OnLoadOtherDataEvent, TypeOK
<1> QED BY <1>2 DEF OnLoadOtherDataEvent, TypeOK, account, channels

LEMMA TypeCheckRecoverPlayer ==
    ASSUME TypeOK, CheckRecoverPlayer, UNCHANGED column
    PROVE  TypeOK'
  BY GoneIs DEF CheckRecoverPlayer, TypeOK, account, channels

LEMMA TypeLobbyChange ==
    ASSUME TypeOK, NEW v \in Int, LobbyChange(v), UNCHANGED column
    PROVE  TypeOK'
<1>1. Exists /\ SyncChange(v) BY DEF LobbyChange, Exists
<1> QED BY <1>1, SyncChangeType DEF LobbyChange, TypeOK, channels

LEMMA TypeGiveSafeBox ==
    ASSUME TypeOK, NEW v \in Int, GiveSafeBox(v), UNCHANGED column
    PROVE  TypeOK'
<1>1. CASE Exists /\ SyncChange(v)
  BY <1>1, SyncChangeType DEF GiveSafeBox, TypeOK, channels
<1>2. CASE AtomChange(v) /\ UNCHANGED lobby
  BY <1>2, AtomChangeType DEF GiveSafeBox, TypeOK, channels
<1> QED BY <1>1, <1>2 DEF GiveSafeBox

LEMMA TypePhpChange ==
    ASSUME TypeOK, NEW v \in Int, PhpChange(v), UNCHANGED column
    PROVE  TypeOK'
<1>1. AtomChange(v) BY DEF PhpChange
<1>2. lobby \in Lobby /\ toGame \in Seq(ToGame) BY DEF TypeOK
<1>3. lobby.coin + Clamped(lobby.coin, v) \in Int
  <2>1. lobby.coin \in Int BY <1>2, LobbyTypes
  <2>2. Clamped(lobby.coin, v) \in Int BY <2>1, ClampedType
  <2> QED BY <2>1, <2>2
<1>4. Exists => [lobby EXCEPT !.coin = lobby.coin + Clamped(lobby.coin, v)] \in Lobby
  BY <1>2, <1>3, LobbyCoin DEF Exists
<1>5. lobby' \in Lobby BY <1>2, <1>4 DEF PhpChange
<1>6. [kind |-> "update", amount |-> v] \in ToGame BY DEF ToGame
<1>7. Append(toGame, [kind |-> "update", amount |-> v]) \in Seq(ToGame)
  BY <1>2, <1>6, AppendProperties
<1>8. toGame' \in Seq(ToGame) BY <1>2, <1>7 DEF PhpChange
<1> QED BY <1>1, <1>5, <1>8, AtomChangeType DEF PhpChange, TypeOK

LEMMA TypeEnterGameSvr ==
    ASSUME TypeOK, EnterGameSvr, UNCHANGED column
    PROVE  TypeOK'
<1>1. lobby \in Lobby /\ toGame \in Seq(ToGame) BY DEF TypeOK
<1>2. lobby' \in Lobby BY <1>1, LobbyAway DEF EnterGameSvr
<1>3. [kind |-> "enter", amount |-> lobby.coin] \in ToGame
  BY <1>1, LobbyTypes DEF ToGame
<1>4. toGame' \in Seq(ToGame) BY <1>1, <1>3, AppendProperties DEF EnterGameSvr
<1> QED BY <1>2, <1>4 DEF EnterGameSvr, TypeOK, account

LEMMA TypeLobbyReceives ==
    ASSUME TypeOK, LobbyReceives, UNCHANGED column
    PROVE  TypeOK'
<1> DEFINE m == Head(toLobby)
<1>1. m \in ToLobby /\ toLobby' \in Seq(ToLobby)
  BY HeadTailProperties DEF LobbyReceives, TypeOK
<1>2. m.amount \in Int BY <1>1, MessageTypes
<1>3. CASE NotifyChangeAccountData(m.amount)
  <2> DEFINE v == m.amount
  <2>1. v \in Int BY <1>2
  <2>2. NotifyChangeAccountData(v) BY <1>3
  <2> HIDE DEF v
  <2>3. CASE lobby.state = "play"
    <3>1. Exists /\ SyncChange(v) BY <2>2, <2>3 DEF NotifyChangeAccountData, Exists
    <3> QED BY <1>1, <2>1, <2>2, <3>1, SyncChangeType
            DEF LobbyReceives, NotifyChangeAccountData, TypeOK
  <2>4. CASE lobby.state # "play"
    <3>1. AtomChange(v) /\ UNCHANGED lobby BY <2>2, <2>4 DEF NotifyChangeAccountData
    <3> QED BY <1>1, <2>1, <2>2, <3>1, AtomChangeType
            DEF LobbyReceives, NotifyChangeAccountData, TypeOK
  <2> QED BY <2>3, <2>4
<1>4. CASE LeaveSvr
  <2>1. lobby' \in Lobby BY <1>4, LobbyAway DEF LeaveSvr, TypeOK
  <2>2. redis' \in BOOLEAN BY <1>4 DEF LeaveSvr, TypeOK
  <2> QED BY <1>1, <1>4, <2>1, <2>2 DEF LobbyReceives, LeaveSvr, TypeOK, account
<1> QED BY <1>3, <1>4 DEF LobbyReceives

LEMMA TypeGameReceives ==
    ASSUME TypeOK, GameReceives, UNCHANGED column
    PROVE  TypeOK'
<1> DEFINE m == Head(toGame)
<1>1. m \in ToGame /\ toGame' \in Seq(ToGame)
  BY HeadTailProperties DEF GameReceives, TypeOK
<1>2. m.amount \in Int BY <1>1, MessageTypes
<1>3. game \in Game BY DEF TypeOK
<1>4. Entered(m.amount) \in Game BY <1>2, <1>3, GameEntered
<1>5. Updated(m.amount) \in Game BY <1>2, <1>3, GameUpdated
<1>6. game' \in Game /\ redis' \in BOOLEAN BY <1>4, <1>5 DEF GameReceives, TypeOK
<1> QED BY <1>1, <1>6 DEF GameReceives, TypeOK, account

LEMMA TypeChangeScoreValueByUID ==
    ASSUME TypeOK, NEW v \in Int, ChangeScoreValueByUID(v), UNCHANGED column
    PROVE  TypeOK'
<1>1. game \in Game /\ toLobby \in Seq(ToLobby) BY DEF TypeOK
<1>2. game.coin \in Int BY <1>1, GameTypes
<1>3. Clamped(game.coin, v) \in Int BY <1>2, ClampedType
<1>4. game.coin + Clamped(game.coin, v) \in Int BY <1>2, <1>3
<1>5. game.here => [game EXCEPT !.coin = game.coin + Clamped(game.coin, v)] \in Game
  BY <1>1, <1>4, GameCoin
<1>6. game.owed => [game EXCEPT !.owed = FALSE] \in Game
  BY <1>1, GameTypes, GamePaid
<1>7. game' \in Game BY <1>5, <1>6 DEF ChangeScoreValueByUID
<1>8. /\ Append(toLobby, Change(Clamped(game.coin, v))) \in Seq(ToLobby)
      /\ Append(toLobby, Change(v)) \in Seq(ToLobby)
  BY <1>1, <1>3, MessageTypes, AppendProperties
<1>9. toLobby' \in Seq(ToLobby) BY <1>8 DEF ChangeScoreValueByUID
<1> QED BY <1>7, <1>9 DEF ChangeScoreValueByUID, TypeOK, account

LEMMA TypeGameChange ==
    ASSUME TypeOK, NEW v \in Int, GameChange(v), UNCHANGED column
    PROVE  TypeOK'
<1>1. game \in Game /\ game.here /\ toLobby \in Seq(ToLobby) BY DEF TypeOK, GameChange
<1>2. game.coin \in Int BY <1>1, GameTypes
<1>3. game.coin + v \in Int BY <1>2
<1>4. [game EXCEPT !.coin = game.coin + v] \in Game BY <1>1, <1>3, GameCoin
<1>5. game' \in Game BY <1>4 DEF GameChange
<1>6. toLobby' \in Seq(ToLobby)
  BY <1>1, MessageTypes, AppendProperties DEF GameChange
<1> QED BY <1>5, <1>6 DEF GameChange, TypeOK, account

LEMMA TypeLockApplyScore ==
    ASSUME TypeOK, NEW v \in Int, LockApplyScore(v), UNCHANGED column
    PROVE  TypeOK'
<1>1. /\ game \in Game /\ game.here /\ v > 0
      /\ game' = Here(game.coin - v, v)
  BY DEF TypeOK, LockApplyScore
<1>2. game.coin - v \in Int /\ v \in Nat BY <1>1, GameTypes
<1>3. game' \in Game BY <1>1, <1>2, GameHere
<1> QED BY <1>3 DEF LockApplyScore, TypeOK, account, channels

LEMMA TypeUnLockApplyScore ==
    ASSUME TypeOK, UnLockApplyScore, UNCHANGED column
    PROVE  TypeOK'
<1>1. /\ game \in Game /\ game.here
      /\ game' = Here(game.coin + game.locked, 0)
  BY DEF TypeOK, UnLockApplyScore
<1>2. game.coin + game.locked \in Int /\ 0 \in Nat BY <1>1, GameTypes
<1>3. game' \in Game BY <1>1, <1>2, GameHere
<1> QED BY <1>3 DEF UnLockApplyScore, TypeOK, account, channels

LEMMA TypeOnLoginOut ==
    ASSUME TypeOK, OnLoginOut, UNCHANGED column
    PROVE  TypeOK'
<1>1. game' \in Game BY GameLeft DEF OnLoginOut
<1>2. [kind |-> "leave", amount |-> 0] \in ToLobby BY DEF ToLobby
<1>3. toLobby' \in Seq(ToLobby) BY <1>2, AppendProperties DEF OnLoginOut, TypeOK
<1> QED BY <1>1, <1>3 DEF OnLoginOut, TypeOK, account

LEMMA TypeStep ==
    ASSUME TypeOK, [Next /\ UNCHANGED column]_vars
    PROVE  TypeOK'
<1>1. CASE UNCHANGED vars BY <1>1 DEF TypeOK, vars
<1>2. CASE UNCHANGED column /\ OnProcessEvent BY <1>2, TypeOnProcessEvent
<1>3. CASE UNCHANGED column /\ Login BY <1>3, TypeLogin
<1>4. CASE UNCHANGED column /\ OnLoadAccountDataEvent BY <1>4, TypeOnLoadAccountDataEvent
<1>5. CASE UNCHANGED column /\ OnLoadOtherDataEvent BY <1>5, TypeOnLoadOtherDataEvent
<1>6. CASE UNCHANGED column /\ CheckRecoverPlayer BY <1>6, TypeCheckRecoverPlayer
<1>7. CASE UNCHANGED column /\ EnterGameSvr BY <1>7, TypeEnterGameSvr
<1>8. CASE UNCHANGED column /\ LobbyReceives BY <1>8, TypeLobbyReceives
<1>9. CASE UNCHANGED column /\ GameReceives BY <1>9, TypeGameReceives
<1>10. CASE UNCHANGED column /\ OnLoginOut BY <1>10, TypeOnLoginOut
<1>11. ASSUME NEW v \in Amounts, UNCHANGED column,
              LobbyChange(v) \/ GiveSafeBox(v) \/ PhpChange(v)
                \/ ChangeScoreValueByUID(v) \/ GameChange(v) \/ LockApplyScore(v)
       PROVE  TypeOK'
  <2>1. v \in Int BY AmountsAre
  <2> QED BY <1>11, <2>1, TypeLobbyChange, TypeGiveSafeBox, TypePhpChange,
             TypeChangeScoreValueByUID, TypeGameChange, TypeLockApplyScore
<1>12. CASE UNCHANGED column /\ UnLockApplyScore BY <1>12, TypeUnLockApplyScore
<1> QED BY <1>1, <1>2, <1>3, <1>4, <1>5, <1>6, <1>7, <1>8, <1>9, <1>10, <1>11, <1>12
        DEF Next

(* Nothing the servers, the database and PHP do with an account takes one  *)
(* of its four places, or what is on the way between them, out of its type *)
(* (CPlayer, CGamePlayer, CDBTask).                                        *)
THEOREM AccountTypeCorrect == Spec => []TypeOK
  BY TypeInit, TypeStep, PTL DEF Spec

-----------------------------------------------------------------------------
(* The lobby's object is what the row will be.  Not inductive alone: while *)
(* the login's load is under way nothing but loads may follow it in the    *)
(* queue, a balance that was read is the account, and a negative account   *)
(* is played with only when no change waits to be written.                 *)

OnlyLoads == \A i \in 1 .. Len(queue) : queue[i] = Load
LoadsLast == \A i, j \in 1 .. Len(queue) : i < j /\ queue[i] = Load => queue[j] = Load

LoadExact ==
    /\ LoadsLast
    /\ replies # <<>> \/ lobby.state = "got" => OnlyLoads
    /\ \A i \in 1 .. Len(replies) : replies[i] = Account
    /\ lobby.state = "got" => lobby.coin = Account

PlayExact ==
    /\ lobby.coin = Account
    /\ lobby.coin >= 0 \/ OnlyLoads

Exact == ~raced => /\ Loading => LoadExact
                   /\ lobby.state = "play" => PlayExact

LEMMA PendingType ==
    ASSUME TypeOK
    PROVE  Pending \in Int /\ Account \in Int
<1>1. queue \in Seq(Request) /\ db \in Int BY DEF TypeOK
<1>2. Carried(queue, "delta") \in Int BY <1>1, MessageTypes, CarriedType
<1> QED BY <1>1, <1>2 DEF Pending, Account

(* A request is queued.                                                    *)
LEMMA PendingQueued ==
    ASSUME TypeOK, NEW r \in Request, queue' = Append(queue, r)
    PROVE  /\ r.kind = "delta" => Pending' = Pending + r.amount
           /\ r.kind # "delta" => Pending' = Pending
           /\ Len(queue) \in Nat /\ Len(queue') = Len(queue) + 1
           /\ \A i \in 1 .. Len(queue) : queue'[i] = queue[i]
           /\ queue'[Len(queue) + 1] = r
<1>1. queue \in Seq(Request) BY DEF TypeOK
<1>2. \A m \in Request : m.kind = "delta" => m.amount \in Int BY MessageTypes
<1>3. /\ r.kind = "delta" =>
           Carried(Append(queue, r), "delta") = Carried(queue, "delta") + r.amount
      /\ r.kind # "delta" => Carried(Append(queue, r), "delta") = Carried(queue, "delta")
  BY <1>1, <1>2, CarriedAppend
<1>4. /\ r.kind = "delta" => Pending' = Pending + r.amount
      /\ r.kind # "delta" => Pending' = Pending
  BY <1>3 DEF Pending
<1> QED BY <1>1, <1>4, LenProperties, AppendProperties

(* The first request is taken.                                             *)
LEMMA PendingTaken ==
    ASSUME TypeOK, queue # <<>>, queue' = Tail(queue)
    PROVE  /\ Head(queue) \in Request
           /\ Head(queue).kind = "delta" => Pending = Head(queue).amount + Pending'
           /\ Head(queue).kind # "delta" => Pending = Pending'
           /\ Len(queue') \in Nat /\ Len(queue) = Len(queue') + 1
           /\ Head(queue) = queue[1]
           /\ \A i \in 1 .. Len(queue') : queue'[i] = queue[i + 1]
<1>1. queue \in Seq(Request) BY DEF TypeOK
<1>2. \A m \in Request : m.kind = "delta" => m.amount \in Int BY MessageTypes
<1>3. /\ Head(queue).kind = "delta" =>
           Carried(queue, "delta") = Head(queue).amount + Carried(Tail(queue), "delta")
      /\ Head(queue).kind # "delta" =>
           Carried(queue, "delta") = Carried(Tail(queue), "delta")
  BY <1>1, <1>2, CarriedTail
<1>4. /\ Head(queue).kind = "delta" => Pending = Head(queue).amount + Pending'
      /\ Head(queue).kind # "delta" => Pending = Pending'
  BY <1>3 DEF Pending
<1>5. /\ Head(queue) \in Request /\ queue' \in Seq(Request)
      /\ Len(queue') = Len(queue) - 1
      /\ \A i \in 1 .. Len(queue') : queue'[i] = queue[i + 1]
  BY <1>1, HeadTailProperties
<1>6. Len(queue) \in Nat /\ Len(queue') \in Nat BY <1>1, <1>5, LenProperties
<1>7. Head(queue) = queue[1] OBVIOUS
<1>8. Len(queue) = Len(queue') + 1 BY <1>5, <1>6
<1> QED BY <1>4, <1>5, <1>6, <1>7, <1>8

LEMMA NothingPending ==
    ASSUME TypeOK, OnlyLoads
    PROVE  Pending = 0 /\ Account = db
<1>1. queue \in Seq(Request) /\ db \in Int BY DEF TypeOK
<1>2. \A i \in 1 .. Len(queue) : queue[i].kind # "delta" BY MessageTypes DEF OnlyLoads
<1>3. Carried(queue, "delta") = 0 BY <1>1, <1>2, MessageTypes, CarriesNothing
<1> QED BY <1>1, <1>3 DEF Pending, Account

LEMMA ExactSame ==
    ASSUME Exact, UNCHANGED <<db, queue, replies>>, raced => raced',
           lobby'.state = lobby.state, lobby'.coin = lobby.coin
    PROVE  Exact'
  BY DEF Exact, Loading, LoadExact, PlayExact, OnlyLoads, LoadsLast, Account, Pending

(* A change of the object that is queued: a login that is under way has    *)
(* been overtaken.                                                         *)
LEMMA ExactSyncChange ==
    ASSUME TypeOK, Exact, NEW v \in Int, Exists, SyncChange(v)
    PROVE  Exact'
<1> DEFINE c == Clamped(lobby.coin, v)
<1>1. /\ lobby'.state = lobby.state /\ lobby'.coin = lobby.coin + c
      /\ queue' = Append(queue, Delta(c))
      /\ db' = db /\ raced' = (raced \/ Loading)
  BY SyncChangeType
<1>2. lobby.coin \in Int BY LobbyTypes DEF TypeOK
<1>3. c \in Int /\ lobby.coin + c >= 0 BY <1>2 DEF Clamped
<1> HIDE DEF c
<1>4. Pending' = Pending + c BY <1>1, <1>3, MessageTypes, PendingQueued
<1>5. db \in Int /\ Pending \in Int BY PendingType DEF TypeOK
<1>6. Account' = Account + c BY <1>1, <1>3, <1>4, <1>5 DEF Account
<1> SUFFICES ASSUME ~raced'
             PROVE  (Loading => LoadExact)' /\ (lobby.state = "play" => PlayExact)'
  BY DEF Exact
<1>7. ~raced /\ ~Loading BY <1>1
<1>8. ~Loading' BY <1>1, <1>7 DEF Loading
<1>9. ASSUME lobby'.state = "play" PROVE PlayExact'
  <2>1. lobby.coin = Account BY <1>1, <1>7, <1>9 DEF Exact, PlayExact
  <2>2. lobby'.coin = Account' /\ lobby'.coin >= 0 BY <1>1, <1>3, <1>6, <2>1
  <2> QED BY <2>2 DEF PlayExact
<1> QED BY <1>8, <1>9

(* A change of the row at once, with nobody playing.                       *)
LEMMA ExactAtomChange ==
    ASSUME TypeOK, Exact, NEW v \in Int, AtomChange(v), UNCHANGED lobby,
           lobby.state # "play"
    PROVE  Exact'
<1>1. raced' = (raced \/ Loading \/ LoadOutstanding) BY AtomChangeType
<1> QED BY <1>1 DEF Exact, Loading

LEMMA ExactOnProcessEvent ==
    ASSUME TypeOK, Exact, OnProcessEvent
    PROVE  Exact'
<1> DEFINE r == Head(queue)
<1>1. queue # <<>> /\ queue' = Tail(queue) /\ raced' = raced /\ lobby' = lobby
  BY DEF OnProcessEvent
<1>2. /\ r \in Request /\ r = queue[1]
      /\ r.kind = "delta" => Pending = r.amount + Pending'
      /\ r.kind # "delta" => Pending = Pending'
      /\ Len(queue') \in Nat /\ Len(queue) = Len(queue') + 1
      /\ \A i \in 1 .. Len(queue') : queue'[i] = queue[i + 1]
  BY <1>1, PendingTaken
<1>3. \/ r.kind = "delta" /\ db' = db + r.amount /\ replies' = replies
      \/ r.kind = "load" /\ db' = db /\ replies' = Append(replies, db)
  BY DEF OnProcessEvent
<1>4. r.kind = "delta" => r.amount \in Int BY <1>2, MessageTypes
<1>5. db \in Int /\ Pending \in Int /\ Pending' \in Int
  <2>1. Pending \in Int /\ db \in Int BY PendingType DEF TypeOK
  <2>2. queue' \in Seq(Request) BY <1>1, HeadTailProperties DEF TypeOK
  <2>3. Carried(queue', "delta") \in Int BY <2>2, MessageTypes, CarriedType
  <2> QED BY <2>1, <2>3 DEF Pending
<1> HIDE DEF r
<1>6. Account' = Account
  <2>1. CASE r.kind = "delta" /\ db' = db + r.amount
    <3>1. Pending = r.amount + Pending' /\ r.amount \in Int BY <1>2, <1>4, <2>1
    <3>2. db' + Pending' = db + Pending BY <1>5, <2>1, <3>1
    <3> QED BY <3>2 DEF Account
  <2>2. CASE r.kind = "load" /\ db' = db
    <3>1. Pending = Pending' BY <1>2, <2>2
    <3> QED BY <2>2, <3>1 DEF Account
  <2> QED BY <1>3, <2>1, <2>2
<1>7. \A i \in 1 .. Len(queue') : i + 1 \in 1 .. Len(queue) /\ queue'[i] = queue[i + 1]
  BY <1>2
<1>8. OnlyLoads => OnlyLoads' BY <1>7 DEF OnlyLoads
<1>9. r.kind = "delta" => ~OnlyLoads
  <2>1. 1 \in 1 .. Len(queue) BY <1>2
  <2> QED BY <1>2, <2>1, MessageTypes DEF OnlyLoads
<1> SUFFICES ASSUME ~raced'
             PROVE  (Loading => LoadExact)' /\ (lobby.state = "play" => PlayExact)'
  BY DEF Exact
<1>10. ASSUME lobby.state = "play" PROVE PlayExact'
  BY <1>1, <1>6, <1>8, <1>10 DEF Exact, PlayExact
<1>11. ASSUME Loading PROVE LoadExact'
  <2>1. LoadExact BY <1>1, <1>11 DEF Exact
  <2>2. LoadsLast'
    <3>1. ASSUME NEW i \in 1 .. Len(queue'), NEW j \in 1 .. Len(queue'),
                 i < j, queue'[i] = Load
          PROVE  queue'[j] = Load
      <4>1. /\ i + 1 \in 1 .. Len(queue) /\ queue[i + 1] = Load
            /\ j + 1 \in 1 .. Len(queue) /\ queue'[j] = queue[j + 1]
        BY <1>7, <3>1
      <4>2. i + 1 < j + 1 BY <1>2, <3>1
      <4> QED BY <2>1, <4>1, <4>2 DEF LoadExact, LoadsLast
    <3> QED BY <3>1 DEF LoadsLast
  <2>3. lobby'.state = "got" => lobby'.coin = Account'
    BY <1>1, <1>6, <2>1 DEF LoadExact
  <2>4. CASE r.kind = "delta" /\ replies' = replies
    <3>1. ~OnlyLoads BY <1>9, <2>4
    <3>2. replies = <<>> /\ lobby.state # "got" BY <2>1, <3>1 DEF LoadExact
    <3>3. \A i \in 1 .. Len(replies') : replies'[i] = Account' BY <2>4, <3>2
    <3> QED BY <1>1, <2>2, <2>3, <2>4, <3>2, <3>3 DEF LoadExact
  <2>5. CASE r.kind = "load" /\ db' = db /\ replies' = Append(replies, db)
    <3>1. queue[1] = Load BY <1>2, <2>5, MessageTypes
    <3>2. OnlyLoads
      <4>1. ASSUME NEW j \in 1 .. Len(queue) PROVE queue[j] = Load
        <5>1. CASE j = 1 BY <3>1, <5>1
        <5>2. CASE j # 1
          <6>1. 1 \in 1 .. Len(queue) /\ 1 < j BY <1>2, <5>2
          <6> QED BY <2>1, <3>1, <6>1 DEF LoadExact, LoadsLast
        <5> QED BY <5>1, <5>2
      <4> QED BY <4>1 DEF OnlyLoads
    <3>3. OnlyLoads' BY <1>8, <3>2
    <3>4. Account = db BY <3>2, NothingPending
    <3>5. /\ replies \in Seq(Int) /\ Len(replies) \in Nat
          /\ Len(replies') = Len(replies) + 1
          /\ \A i \in 1 .. Len(replies) : replies'[i] = replies[i]
          /\ replies'[Len(replies) + 1] = db
      BY <1>5, <2>5, AppendProperties, LenProperties DEF TypeOK
    <3>6. \A i \in 1 .. Len(replies') : replies'[i] = Account'
      <4>1. ASSUME NEW i \in 1 .. Len(replies') PROVE replies'[i] = Account'
        <5>1. CASE i \in 1 .. Len(replies) BY <1>6, <2>1, <3>5, <5>1 DEF LoadExact
        <5>2. CASE i = Len(replies) + 1 BY <1>6, <3>4, <3>5, <5>2
        <5> QED BY <3>5, <5>1, <5>2
      <4> QED BY <4>1
    <3> QED BY <2>2, <2>3, <3>3, <3>6 DEF LoadExact
  <2> QED BY <1>3, <2>4, <2>5
<1> QED BY <1>1, <1>10, <1>11 DEF Loading

LEMMA ExactLogin ==
    ASSUME TypeOK, Exact, Login
    PROVE  Exact'
<1>1. /\ lobby.state # "play" /\ queue' = Append(queue, Load)
      /\ db' = db /\ replies' = replies
      /\ Exists => lobby' = lobby /\ raced' = raced
      /\ ~Exists => lobby' = [Gone EXCEPT !.state = "load"] /\ raced' = LoadOutstanding
  BY DEF Login
<1>2. /\ Pending' = Pending
      /\ Len(queue) \in Nat /\ Len(queue') = Len(queue) + 1
      /\ \A i \in 1 .. Len(queue) : queue'[i] = queue[i]
      /\ queue'[Len(queue) + 1] = Load
  BY <1>1, MessageTypes, PendingQueued
<1>3. Account' = Account BY <1>1, <1>2 DEF Account
<1>4. \A i \in 1 .. Len(queue') : i \in 1 .. Len(queue) \/ queue'[i] = Load
  BY <1>2
<1>5. OnlyLoads => OnlyLoads' BY <1>2, <1>4 DEF OnlyLoads
<1>6. LoadsLast => LoadsLast'
  <2>1. ASSUME LoadsLast,
               NEW i \in 1 .. Len(queue'), NEW j \in 1 .. Len(queue'),
               i < j, queue'[i] = Load
        PROVE  queue'[j] = Load
    <3>1. CASE j \in 1 .. Len(queue)
      <4>1. i \in 1 .. Len(queue) /\ queue[i] = Load BY <1>2, <2>1, <3>1
      <4> QED BY <1>2, <2>1, <3>1, <4>1 DEF LoadsLast
    <3> QED BY <1>4, <3>1
  <2> QED BY <2>1 DEF LoadsLast
<1>7. CASE Exists
  <2>1. lobby.state \in {"load", "got"} BY <1>1, <1>7, LobbyTypes DEF Exists, TypeOK
  <2>2. Loading /\ lobby' = lobby /\ raced' = raced BY <1>1, <1>7, <2>1 DEF Loading
  <2>3. ASSUME ~raced PROVE LoadExact'
    <3>1. LoadExact BY <2>2, <2>3 DEF Exact
    <3> QED BY <1>1, <1>3, <1>5, <1>6, <2>2, <3>1 DEF LoadExact
  <2> QED BY <2>1, <2>2, <2>3 DEF Exact
<1>8. CASE ~Exists
  <2>1. lobby'.state = "load" /\ raced' = LoadOutstanding BY <1>1, <1>8, LoginIs
  <2>2. ASSUME ~LoadOutstanding PROVE LoadExact'
    <3>1. replies = <<>> /\ \A i \in 1 .. Len(queue) : queue[i] # Load
      <4>1. DOMAIN queue = 1 .. Len(queue) BY LenProperties DEF TypeOK
      <4> QED BY <2>2, <4>1 DEF LoadOutstanding
    <3>2. LoadsLast BY <3>1 DEF LoadsLast
    <3>3. replies' = <<>> /\ LoadsLast' BY <1>1, <1>6, <3>1, <3>2
    <3>4. \A i \in 1 .. Len(replies') : replies'[i] = Account' BY <3>3
    <3> QED BY <2>1, <3>3, <3>4 DEF LoadExact
  <2> QED BY <2>1, <2>2 DEF Exact
<1> QED BY <1>7, <1>8

LEMMA ExactOnLoadAccountDataEvent ==
    ASSUME TypeOK, Exact, OnLoadAccountDataEvent
    PROVE  Exact'
<1>1. /\ replies # <<>> /\ replies' = Tail(replies)
      /\ db' = db /\ queue' = queue /\ raced' = raced
  BY DEF OnLoadAccountDataEvent
<1>2. \/ Loading /\ lobby' = [lobby EXCEPT !.state = "got", !.coin = Head(replies)]
      \/ Loading /\ lobby' = Ready(Head(replies))
      \/ ~Loading /\ lobby' = lobby
  BY DEF OnLoadAccountDataEvent
<1>3. /\ replies \in Seq(Int) /\ Head(replies) \in Int
      /\ Len(replies) \in Nat /\ Len(replies') = Len(replies) - 1
      /\ \A i \in 1 .. Len(replies') : replies'[i] = replies[i + 1]
      /\ Head(replies) = replies[1]
  BY <1>1, HeadTailProperties, LenProperties DEF TypeOK
<1>4. Len(replies) # 0 BY <1>1, <1>3, EmptySeq
<1>5. 1 \in 1 .. Len(replies) BY <1>3, <1>4
<1>6. \A i \in 1 .. Len(replies') : i + 1 \in 1 .. Len(replies) BY <1>3, <1>4
<1>7. Account' = Account /\ (OnlyLoads => OnlyLoads') /\ (LoadsLast => LoadsLast')
  BY <1>1 DEF Account, Pending, OnlyLoads, LoadsLast
<1>8. CASE ~Loading /\ lobby' = lobby
  <2>1. ~Loading' BY <1>8 DEF Loading
  <2> QED BY <1>1, <1>7, <1>8, <2>1 DEF Exact, PlayExact
<1>9. ASSUME Loading, ~raced
      PROVE  /\ LoadExact /\ OnlyLoads' /\ LoadsLast' /\ Head(replies) = Account'
             /\ \A i \in 1 .. Len(replies') : replies'[i] = Account'
  <2>1. LoadExact BY <1>9 DEF Exact
  <2>2. OnlyLoads /\ LoadsLast BY <1>1, <2>1 DEF LoadExact
  <2>3. Head(replies) = Account' BY <1>3, <1>5, <1>7, <2>1 DEF LoadExact
  <2>4. \A i \in 1 .. Len(replies') : replies'[i] = Account'
    BY <1>3, <1>6, <1>7, <2>1 DEF LoadExact
  <2> QED BY <1>7, <2>1, <2>2, <2>3, <2>4
<1>10. CASE Loading /\ lobby' = [lobby EXCEPT !.state = "got", !.coin = Head(replies)]
  <2>1. lobby.state # "none" /\ lobby \in Lobby BY <1>10 DEF Loading, TypeOK
  <2>2. lobby'.state = "got" /\ lobby'.coin = Head(replies)
    BY <1>3, <1>10, <2>1, LobbyGot
  <2>3. ~raced => LoadExact' BY <1>9, <1>10, <2>2 DEF LoadExact
  <2> QED BY <1>1, <2>2, <2>3 DEF Exact
<1>11. CASE Loading /\ lobby' = Ready(Head(replies))
  <2>1. lobby'.state = "play" /\ lobby'.coin = Head(replies)
    BY <1>3, <1>11, ReadyIs DEF TypeOK
  <2>2. ~raced => PlayExact' BY <1>9, <1>11, <2>1 DEF PlayExact
  <2>3. ~Loading' BY <2>1 DEF Loading
  <2> QED BY <1>1, <2>2, <2>3 DEF Exact
<1> QED BY <1>2, <1>8, <1>10, <1>11

LEMMA ExactOnLoadOtherDataEvent ==
    ASSUME TypeOK, Exact, OnLoadOtherDataEvent
    PROVE  Exact'
<1>1. /\ lobby.state = "got" /\ lobby' = Ready(lobby.coin)
      /\ db' = db /\ queue' = queue /\ raced' = raced
  BY DEF OnLoadOtherDataEvent, account
<1>2. lobby.coin \in Int BY LobbyTypes DEF TypeOK
<1>3. lobby'.state = "play" /\ lobby'.coin = lobby.coin
  BY <1>1, <1>2, ReadyIs DEF TypeOK
<1>4. Account' = Account /\ (OnlyLoads => OnlyLoads')
  BY <1>1 DEF Account, Pending, OnlyLoads
<1>5. ASSUME ~raced PROVE PlayExact'
  <2>1. LoadExact BY <1>1, <1>5 DEF Exact, Loading
  <2> QED BY <1>1, <1>3, <1>4, <2>1 DEF LoadExact, PlayExact
<1>6. ~Loading' BY <1>3 DEF Loading
<1> QED BY <1>1, <1>5, <1>6 DEF Exact

LEMMA ExactPhpChange ==
    ASSUME TypeOK, Exact, NEW v \in Int, PhpChange(v)
    PROVE  Exact'
<1>1. AtomChange(v) BY DEF PhpChange
<1>2. /\ queue' = queue /\ replies' = replies
      /\ raced' = (raced \/ Loading \/ LoadOutstanding)
      /\ AtomPasses(v) => db' = db + v
  BY <1>1, AtomChangeType
<1>3. lobby \in Lobby /\ lobby.coin \in Int /\ db \in Int /\ Pending \in Int
  BY LobbyTypes, PendingType DEF TypeOK
<1>4. CASE ~Exists
  <2>1. lobby' = lobby BY <1>4 DEF PhpChange
  <2>2. lobby.state # "play" BY <1>4 DEF Exists
  <2> QED BY <1>1, <2>1, <2>2, ExactAtomChange
<1>5. CASE Exists
  <2> DEFINE c == lobby.coin + Clamped(lobby.coin, v)
  <2>1. /\ CanChange(lobby.coin, v) /\ AtomPasses(v)
        /\ lobby' = [lobby EXCEPT !.coin = c]
    BY <1>5 DEF PhpChange
  <2>2. Clamped(lobby.coin, v) \in Int BY <1>3, ClampedType
  <2>3. c \in Int BY <1>3, <2>2
  <2> HIDE DEF c
  <2>4. lobby'.state = lobby.state /\ lobby'.coin = c
    BY <1>3, <1>5, <2>1, <2>3, LobbyCoin DEF Exists
  <2>5. Account' = Account + v
    <3>1. db' = db + v BY <1>2, <2>1
    <3>2. Pending' = Pending BY <1>2 DEF Pending
    <3>3. db' + Pending' = (db + Pending) + v BY <1>3, <3>1, <3>2
    <3> QED BY <3>3 DEF Account
  <2>6. ASSUME lobby.state = "play", ~raced PROVE PlayExact'
    <3>1. lobby.coin = Account /\ (lobby.coin >= 0 \/ OnlyLoads) BY <2>6 DEF Exact, PlayExact
    <3>2. lobby.coin + v >= 0
      <4>1. v >= 0 \/ lobby.coin + v >= 0 BY <2>1 DEF CanChange
      <4>2. CASE lobby.coin >= 0 BY <1>3, <4>1, <4>2
      <4>3. CASE OnlyLoads
        <5>1. Account = db BY <4>3, NothingPending
        <5>2. db + v >= 0 BY <2>1 DEF AtomPasses
        <5> QED BY <3>1, <5>1, <5>2
      <4> QED BY <3>1, <4>2, <4>3
    <3>3. Clamped(lobby.coin, v) = v BY <1>3, <3>2, ClampedType
    <3>4. c = lobby.coin + v BY <3>3 DEF c
    <3>5. lobby'.coin = Account' /\ lobby'.coin >= 0 BY <2>4, <2>5, <3>1, <3>2, <3>4
    <3> QED BY <3>5 DEF PlayExact
  <2> QED BY <1>2, <2>4, <2>6 DEF Exact, Loading
<1> QED BY <1>4, <1>5

LEMMA ExactLobbyReceives ==
    ASSUME TypeOK, Exact, LobbyReceives
    PROVE  Exact'
<1> DEFINE v == Head(toLobby).amount
<1>1. Head(toLobby) \in ToLobby
  BY HeadTailProperties DEF LobbyReceives, TypeOK
<1>2. v \in Int BY <1>1, MessageTypes
<1>3. NotifyChangeAccountData(v) \/ LeaveSvr BY DEF LobbyReceives
<1> HIDE DEF v
<1>4. CASE LeaveSvr
  <2>1. lobby \in Lobby BY DEF TypeOK
  <2>2. lobby'.state = lobby.state /\ lobby'.coin = lobby.coin
    BY <1>4, <2>1, LobbyAway DEF LeaveSvr
  <2> QED BY <1>4, <2>2, ExactSame DEF LeaveSvr, account
<1>5. CASE NotifyChangeAccountData(v) /\ lobby.state = "play"
  <2>1. Exists /\ SyncChange(v) BY <1>5 DEF NotifyChangeAccountData, Exists
  <2> QED BY <1>2, <2>1, ExactSyncChange
<1>6. CASE NotifyChangeAccountData(v) /\ lobby.state # "play"
  <2>1. AtomChange(v) /\ UNCHANGED lobby BY <1>6 DEF NotifyChangeAccountData
  <2> QED BY <1>2, <1>6, <2>1, ExactAtomChange
<1> QED BY <1>3, <1>4, <1>5, <1>6

LEMMA ExactGiveSafeBox ==
    ASSUME TypeOK, Exact, NEW v \in Int, GiveSafeBox(v)
    PROVE  Exact'
<1>1. CASE Exists /\ SyncChange(v) BY <1>1, ExactSyncChange
<1>2. CASE ~Exists /\ AtomChange(v) /\ UNCHANGED lobby
  BY <1>2, ExactAtomChange DEF Exists
<1> QED BY <1>1, <1>2 DEF GiveSafeBox

LEMMA ExactStep ==
    ASSUME TypeOK, Exact, [Next /\ UNCHANGED column]_vars
    PROVE  Exact'
<1>1. CASE UNCHANGED vars BY <1>1, ExactSame DEF vars
<1>2. CASE OnProcessEvent BY <1>2, ExactOnProcessEvent
<1>3. CASE Login BY <1>3, ExactLogin
<1>4. CASE OnLoadAccountDataEvent BY <1>4, ExactOnLoadAccountDataEvent
<1>5. CASE OnLoadOtherDataEvent BY <1>5, ExactOnLoadOtherDataEvent
<1>6. CASE CheckRecoverPlayer
  BY <1>6, GoneIs DEF CheckRecoverPlayer, Exact, Loading
<1>7. CASE EnterGameSvr
  <2>1. lobby' = [lobby EXCEPT !.away = TRUE] /\ lobby.state # "none" /\ lobby \in Lobby
    BY <1>7 DEF EnterGameSvr, TypeOK
  <2>2. lobby'.state = lobby.state /\ lobby'.coin = lobby.coin BY <2>1, LobbyAway
  <2> QED BY <1>7, <2>2, ExactSame DEF EnterGameSvr, account
<1>8. CASE LobbyReceives BY <1>8, ExactLobbyReceives
<1>9. CASE GameReceives BY <1>9, ExactSame DEF GameReceives, account
<1>10. CASE OnLoginOut BY <1>10, ExactSame DEF OnLoginOut, account
<1>11. ASSUME NEW v \in Amounts,
              LobbyChange(v) \/ GiveSafeBox(v) \/ PhpChange(v)
                \/ ChangeScoreValueByUID(v) \/ GameChange(v) \/ LockApplyScore(v)
       PROVE  Exact'
  <2>1. v \in Int BY AmountsAre
  <2>2. CASE LobbyChange(v)
    <3>1. Exists /\ SyncChange(v) BY <2>2 DEF LobbyChange, Exists
    <3> QED BY <2>1, <3>1, ExactSyncChange
  <2>3. CASE GiveSafeBox(v) BY <2>1, <2>3, ExactGiveSafeBox
  <2>4. CASE PhpChange(v) BY <2>1, <2>4, ExactPhpChange
  <2>5. CASE ChangeScoreValueByUID(v) BY <2>5, ExactSame DEF ChangeScoreValueByUID, account
  <2>6. CASE GameChange(v) BY <2>6, ExactSame DEF GameChange, account
  <2>7. CASE LockApplyScore(v) BY <2>7, ExactSame DEF LockApplyScore, account
  <2> QED BY <1>11, <2>2, <2>3, <2>4, <2>5, <2>6, <2>7
<1>12. CASE UnLockApplyScore BY <1>12, ExactSame DEF UnLockApplyScore, account
<1> QED BY <1>1, <1>2, <1>3, <1>4, <1>5, <1>6, <1>7, <1>8, <1>9, <1>10, <1>11, <1>12
        DEF Next

(* Unless the account was changed around the login's load, the lobby's     *)
(* player object is what the row will be when the queue is worked off      *)
(* (CPlayer::SyncChangeAccountValue, PhpAtomChangeAccountValue).           *)
THEOREM MemoryIsExact == Spec => []MemoryExact
<1>1. Init => Exact BY GoneIs DEF Init, Exact, Loading
<1>2. TypeOK /\ Exact /\ [Next /\ UNCHANGED column]_vars => Exact' BY ExactStep
<1>3. Exact => MemoryExact BY DEF Exact, PlayExact, MemoryExact
<1> QED BY <1>1, <1>2, <1>3, AccountTypeCorrect, PTL DEF Spec

-----------------------------------------------------------------------------
(* The game server's copy goes on agreeing.  What is needed besides is     *)
(* that coins on the way to a game server are never a debit.               *)

Recharges ==
    column = "coin" =>
      \A i \in 1 .. Len(toGame) : toGame[i].kind = "update" => toGame[i].amount >= 0

LEMMA EmptyPrefix ==
    ASSUME NEW s, NEW k
    PROVE  Carried(SubSeq(s, 1, 0), k) = 0
<1>1. AmountsOf(<<>>, k) \in [1 .. 0 -> Int] BY DEF AmountsOf
<1>2. \A i \in 1 .. 0 : AmountsOf(<<>>, k)[i] = 0 OBVIOUS
<1>3. Carried(<<>>, k) = 0 BY <1>1, <1>2, NetOfZeros DEF Carried
<1>4. SubSeq(s, 1, 0) = <<>> BY SubSeqEmpty
<1> QED BY <1>3, <1>4

(* A message to the game server is sent, is taken.                         *)
LEMMA GameSent ==
    ASSUME TypeOK, NEW m \in ToGame, toGame' = Append(toGame, m)
    PROVE  /\ m.kind = "update" =>
                Carried(toGame', "update") = Carried(toGame, "update") + m.amount
           /\ m.kind # "update" => Carried(toGame', "update") = Carried(toGame, "update")
           /\ Len(toGame) \in Nat /\ Len(toGame') = Len(toGame) + 1
           /\ \A i \in 1 .. Len(toGame) : toGame'[i] = toGame[i]
           /\ toGame'[Len(toGame) + 1] = m
<1>1. toGame \in Seq(ToGame) BY DEF TypeOK
<1>2. \A x \in ToGame : x.kind = "update" => x.amount \in Int BY MessageTypes
<1>3. /\ m.kind = "update" =>
           Carried(toGame', "update") = Carried(toGame, "update") + m.amount
      /\ m.kind # "update" => Carried(toGame', "update") = Carried(toGame, "update")
  BY <1>1, <1>2, CarriedAppend
<1> QED BY <1>1, <1>3, LenProperties, AppendProperties

LEMMA GameTaken ==
    ASSUME TypeOK, toGame # <<>>, toGame' = Tail(toGame)
    PROVE  /\ Head(toGame) \in ToGame
           /\ Head(toGame).kind = "update" =>
                Carried(toGame, "update") = Head(toGame).amount + Carried(toGame', "update")
           /\ Head(toGame).kind # "update" =>
                Carried(toGame, "update") = Carried(toGame', "update")
           /\ Carried(toGame', "update") \in Int
           /\ Head(toGame) = toGame[1] /\ 1 \in 1 .. Len(toGame)
           /\ \A i \in 1 .. Len(toGame') :
                i + 1 \in 1 .. Len(toGame) /\ toGame'[i] = toGame[i + 1]
<1>1. toGame \in Seq(ToGame) BY DEF TypeOK
<1>2. \A x \in ToGame : x.kind = "update" => x.amount \in Int BY MessageTypes
<1>3. /\ Head(toGame).kind = "update" =>
           Carried(toGame, "update") = Head(toGame).amount + Carried(toGame', "update")
      /\ Head(toGame).kind # "update" =>
           Carried(toGame, "update") = Carried(toGame', "update")
  BY <1>1, <1>2, CarriedTail
<1>4. /\ Head(toGame) \in ToGame /\ toGame' \in Seq(ToGame)
      /\ Len(toGame') = Len(toGame) - 1
      /\ \A i \in 1 .. Len(toGame') : toGame'[i] = toGame[i + 1]
  BY <1>1, HeadTailProperties
<1>5. Len(toGame) \in Nat /\ Len(toGame') \in Nat BY <1>1, <1>4, LenProperties
<1>6. Carried(toGame', "update") \in Int BY <1>2, <1>4, CarriedType
<1>7. Head(toGame) = toGame[1] OBVIOUS
<1>8. /\ 1 \in 1 .. Len(toGame)
      /\ \A i \in 1 .. Len(toGame') : i + 1 \in 1 .. Len(toGame)
  BY <1>4, <1>5
<1> QED BY <1>3, <1>4, <1>6, <1>7, <1>8

(* A settlement for the lobby is sent, is taken.                           *)
LEMMA LobbySent ==
    ASSUME TypeOK, NEW v \in Int, toLobby' = Append(toLobby, Change(v))
    PROVE  /\ Carried(toLobby', "change") = Carried(toLobby, "change") + v
           /\ Len(toLobby) \in Nat /\ Len(toLobby') = Len(toLobby) + 1
           /\ \A n \in 0 .. Len(toLobby) : SubSeq(toLobby', 1, n) = SubSeq(toLobby, 1, n)
           /\ SubSeq(toLobby', 1, Len(toLobby) + 1) = toLobby'
<1> DEFINE m == Change(v)
<1>1. toLobby \in Seq(ToLobby) BY DEF TypeOK
<1>2. m \in ToLobby /\ m.kind = "change" /\ m.amount = v BY MessageTypes
<1> HIDE DEF m
<1>3. \A x \in ToLobby : x.kind = "change" => x.amount \in Int BY MessageTypes
<1>4. toLobby' = Append(toLobby, m) BY DEF m
<1>5. Carried(toLobby', "change") = Carried(toLobby, "change") + v
  BY <1>1, <1>2, <1>3, <1>4, CarriedAppend
<1>6. /\ toLobby' \in Seq(ToLobby) /\ Len(toLobby) \in Nat
      /\ Len(toLobby') = Len(toLobby) + 1
  BY <1>1, <1>2, <1>4, LenProperties, AppendProperties
<1>7. \A n \in 0 .. Len(toLobby) : SubSeq(toLobby', 1, n) = SubSeq(toLobby, 1, n)
  BY <1>1, <1>2, <1>4, PrefixOfAppend
<1>8. SubSeq(toLobby', 1, Len(toLobby')) = toLobby' BY <1>6, SubSeqFull
<1> QED BY <1>5, <1>6, <1>7, <1>8

LEMMA LobbyTaken ==
    ASSUME TypeOK, toLobby # <<>>, toLobby' = Tail(toLobby),
           NEW v \in Int, Head(toLobby).kind = "change", Head(toLobby).amount = v
    PROVE  /\ Carried(toLobby, "change") = v + Carried(toLobby', "change")
           /\ Carried(toLobby', "change") \in Int
           /\ \A n \in 0 .. Len(toLobby') :
                /\ n + 1 \in 0 .. Len(toLobby)
                /\ Carried(SubSeq(toLobby', 1, n), "change") \in Int
                /\ Carried(SubSeq(toLobby, 1, n + 1), "change")
                     = v + Carried(SubSeq(toLobby', 1, n), "change")
           /\ 1 \in 0 .. Len(toLobby) /\ Carried(SubSeq(toLobby, 1, 1), "change") = v
<1>1. toLobby \in Seq(ToLobby) BY DEF TypeOK
<1>2. \A x \in ToLobby : x.kind = "change" => x.amount \in Int BY MessageTypes
<1>3. Carried(toLobby, "change") = v + Carried(toLobby', "change")
  BY <1>1, <1>2, CarriedTail
<1>4. toLobby' \in Seq(ToLobby) /\ Len(toLobby') \in Nat
  BY <1>1, HeadTailProperties, LenProperties
<1>5. Carried(toLobby', "change") \in Int BY <1>2, <1>4, CarriedType
<1>6. ASSUME NEW n \in 0 .. Len(toLobby')
      PROVE  /\ n + 1 \in 0 .. Len(toLobby)
             /\ Carried(SubSeq(toLobby', 1, n), "change") \in Int
             /\ Carried(SubSeq(toLobby, 1, n + 1), "change")
                  = v + Carried(SubSeq(toLobby', 1, n), "change")
  <2> DEFINE u == SubSeq(toLobby, 1, n + 1)
  <2>1. /\ n + 1 \in 0 .. Len(toLobby)
        /\ u \in Seq(ToLobby) /\ u # <<>>
        /\ Head(u) = Head(toLobby)
        /\ Tail(u) = SubSeq(toLobby', 1, n)
    BY <1>1, PrefixOfTail
  <2> HIDE DEF u
  <2>2. Tail(u) \in Seq(ToLobby) BY <2>1, HeadTailProperties
  <2>3. Carried(Tail(u), "change") \in Int BY <1>2, <2>2, CarriedType
  <2>4. Carried(u, "change") = v + Carried(Tail(u), "change")
    BY <1>2, <2>1, CarriedTail
  <2> QED BY <2>1, <2>3, <2>4 DEF u
<1>7. 0 \in 0 .. Len(toLobby') BY <1>4
<1>8. Carried(SubSeq(toLobby', 1, 0), "change") = 0 BY EmptyPrefix
<1>9. 0 + 1 \in 0 .. Len(toLobby) /\ Carried(SubSeq(toLobby, 1, 0 + 1), "change") = v
  BY <1>6, <1>7, <1>8
<1> QED BY <1>3, <1>5, <1>6, <1>9

LEMMA RechargesInit == Init => Recharges
  BY DEF Init, Recharges

LEMMA RechargesSent ==
    ASSUME TypeOK, Recharges, UNCHANGED column, NEW m \in ToGame,
           toGame' = Append(toGame, m),
           column = "coin" /\ m.kind = "update" => m.amount >= 0
    PROVE  Recharges'
<1>1. /\ Len(toGame) \in Nat /\ Len(toGame') = Len(toGame) + 1
      /\ \A i \in 1 .. Len(toGame) : toGame'[i] = toGame[i]
      /\ toGame'[Len(toGame) + 1] = m
  BY GameSent
<1>2. \A i \in 1 .. Len(toGame') : i \in 1 .. Len(toGame) \/ i = Len(toGame) + 1
  BY <1>1
<1> QED BY <1>1, <1>2 DEF Recharges

LEMMA RechargesStep ==
    ASSUME TypeOK, Recharges, [Next /\ UNCHANGED column]_vars
    PROVE  Recharges'
<1>1. CASE UNCHANGED <<column, toGame>> BY <1>1 DEF Recharges
<1>2. CASE UNCHANGED column /\ EnterGameSvr
  <2> DEFINE m == [kind |-> "enter", amount |-> lobby.coin]
  <2>1. m \in ToGame BY LobbyTypes DEF ToGame, TypeOK
  <2>2. m.kind = "enter" OBVIOUS
  <2>3. toGame' = Append(toGame, m) BY <1>2 DEF EnterGameSvr
  <2> HIDE DEF m
  <2> QED BY <1>2, <2>1, <2>2, <2>3, RechargesSent
<1>3. CASE UNCHANGED column /\ GameReceives
  <2>1. \A i \in 1 .. Len(toGame') :
          i + 1 \in 1 .. Len(toGame) /\ toGame'[i] = toGame[i + 1]
    BY <1>3, GameTaken DEF GameReceives
  <2> QED BY <1>3, <2>1 DEF Recharges
<1>4. ASSUME NEW v \in Amounts, UNCHANGED column, PhpChange(v)
      PROVE  Recharges'
  <2> DEFINE m == [kind |-> "update", amount |-> v]
  <2>1. m \in ToGame /\ m.kind = "update" /\ m.amount = v BY AmountsAre DEF ToGame
  <2>2. CASE toGame' = toGame BY <1>4, <2>2 DEF Recharges
  <2>3. CASE toGame' = Append(toGame, m) /\ Exists /\ lobby.away
    <3>1. column = "coin" => v >= 0 BY <1>4, <2>3, AmountsAre DEF PhpChange
    <3> HIDE DEF m
    <3> QED BY <1>4, <2>1, <2>3, <3>1, RechargesSent
  <2> QED BY <1>4, <2>2, <2>3 DEF PhpChange
<1>5. Next => \/ EnterGameSvr \/ GameReceives \/ \E v \in Amounts : PhpChange(v)
              \/ UNCHANGED toGame
  BY DEF Next, OnProcessEvent, Login, OnLoadAccountDataEvent, OnLoadOtherDataEvent,
     CheckRecoverPlayer, LobbyReceives, OnLoginOut, LobbyChange, GiveSafeBox,
     ChangeScoreValueByUID, GameChange, LockApplyScore, UnLockApplyScore, channels
<1> QED BY <1>1, <1>2, <1>3, <1>4, <1>5 DEF vars

(* Nothing is on the way that was not there, and the balances are the same. *)
LEMMA CopySame ==
    ASSUME CopyAgrees, UNCHANGED toLobby,
           Carried(toGame', "update") = Carried(toGame, "update"),
           lobby'.coin = lobby.coin, game'.coin = game.coin, game'.locked = game.locked
    PROVE  CopyAgrees'
  BY DEF CopyAgrees

LEMMA CopyFacts ==
    ASSUME TypeOK, CopyAgrees
    PROVE  /\ lobby.coin \in Int /\ lobby.coin >= 0
           /\ game.coin \in Int /\ game.coin >= 0 /\ game.locked \in Nat
           /\ Carried(toGame, "update") \in Int /\ Carried(toLobby, "change") \in Int
           /\ game.coin + game.locked + Carried(toGame, "update")
                = lobby.coin + Carried(toLobby, "change")
<1>1. toGame \in Seq(ToGame) /\ toLobby \in Seq(ToLobby) BY DEF TypeOK
<1>2. Carried(toGame, "update") \in Int BY <1>1, MessageTypes, CarriedType
<1>3. Carried(toLobby, "change") \in Int BY <1>1, MessageTypes, CarriedType
<1>4. lobby.coin \in Int /\ game.coin \in Int /\ game.locked \in Nat
  BY LobbyTypes, GameTypes DEF TypeOK
<1>5. 0 \in 0 .. Len(toLobby) BY <1>1, LenProperties
<1>6. Carried(SubSeq(toLobby, 1, 0), "change") = 0 BY EmptyPrefix
<1>7. lobby.coin + 0 >= 0 BY <1>5, <1>6 DEF CopyAgrees
<1> QED BY <1>2, <1>3, <1>4, <1>7 DEF CopyAgrees

LEMMA NoDebits ==
    ASSUME TypeOK, Recharges, column = "coin"
    PROVE  Carried(toGame, "update") >= 0
<1>1. toGame \in Seq(ToGame) BY DEF TypeOK
<1>2. \A x \in ToGame : x.kind = "update" => x.amount \in Int BY MessageTypes
<1>3. \A i \in 1 .. Len(toGame) : toGame[i].kind = "update" => toGame[i].amount >= 0
  BY DEF Recharges
<1> QED BY <1>1, <1>2, <1>3, CarriesGains

(* A recharge: lobby and game server both are going to add it.             *)
LEMMA CopyRecharged ==
    ASSUME TypeOK, CopyAgrees, NEW v \in Int, v >= 0, UNCHANGED toLobby,
           lobby'.coin = lobby.coin + v, game'.coin = game.coin, game'.locked = game.locked,
           Carried(toGame', "update") = Carried(toGame, "update") + v
    PROVE  CopyAgrees'
<1>1. /\ lobby.coin \in Int /\ lobby.coin >= 0
      /\ game.coin \in Int /\ game.coin >= 0 /\ game.locked \in Nat
      /\ Carried(toGame, "update") \in Int /\ Carried(toLobby, "change") \in Int
      /\ game.coin + game.locked + Carried(toGame, "update")
           = lobby.coin + Carried(toLobby, "change")
  BY CopyFacts
<1>2. game'.coin + game'.locked + Carried(toGame', "update")
        = lobby'.coin + Carried(toLobby', "change")
  BY <1>1
<1>3. ASSUME NEW n \in 0 .. Len(toLobby)
      PROVE  lobby'.coin + Carried(SubSeq(toLobby, 1, n), "change") >= 0
  <2>1. SubSeq(toLobby, 1, n) \in Seq(ToLobby) BY MessageTypes, PrefixOfAppend DEF TypeOK
  <2>2. Carried(SubSeq(toLobby, 1, n), "change") \in Int BY <2>1, MessageTypes, CarriedType
  <2>3. lobby.coin + Carried(SubSeq(toLobby, 1, n), "change") >= 0 BY DEF CopyAgrees
  <2> QED BY <1>1, <2>2, <2>3
<1> QED BY <1>1, <1>2, <1>3 DEF CopyAgrees

(* The game server settles, and tells the lobby.                           *)
LEMMA CopySettled ==
    ASSUME TypeOK, CopyAgrees, NEW v \in Int, UNCHANGED toGame,
           toLobby' = Append(toLobby, Change(v)),
           lobby'.coin = lobby.coin, game'.coin = game.coin + v, game.coin + v >= 0,
           game'.locked = game.locked,
           Carried(toGame, "update") >= 0
    PROVE  CopyAgrees'
<1>1. /\ lobby.coin \in Int /\ game.coin \in Int /\ game.locked \in Nat
      /\ Carried(toGame, "update") \in Int /\ Carried(toLobby, "change") \in Int
      /\ game.coin + game.locked + Carried(toGame, "update")
           = lobby.coin + Carried(toLobby, "change")
  BY CopyFacts
<1>2. /\ Carried(toLobby', "change") = Carried(toLobby, "change") + v
      /\ Len(toLobby) \in Nat /\ Len(toLobby') = Len(toLobby) + 1
      /\ \A n \in 0 .. Len(toLobby) : SubSeq(toLobby', 1, n) = SubSeq(toLobby, 1, n)
      /\ SubSeq(toLobby', 1, Len(toLobby) + 1) = toLobby'
  BY LobbySent
<1>3. game'.coin + game'.locked + Carried(toGame', "update")
        = lobby'.coin + Carried(toLobby', "change")
  <2>1. /\ toGame' = toGame /\ lobby'.coin = lobby.coin
        /\ game'.coin = game.coin + v /\ game'.locked = game.locked
    OBVIOUS
  <2>2. Carried(toLobby', "change") = Carried(toLobby, "change") + v BY <1>2
  <2> DEFINE a == game.coin
             k == game.locked
             u == Carried(toGame, "update")
             l == lobby.coin
             c == Carried(toLobby, "change")
  <2>3. /\ a \in Int /\ k \in Int /\ u \in Int /\ l \in Int /\ c \in Int
        /\ a + k + u = l + c
    BY <1>1
  <2> HIDE DEF a, k, u, l, c
  <2>4. (a + v) + k + u = l + (c + v) BY <2>3
  <2> QED BY <2>1, <2>2, <2>4 DEF a, k, u, l, c
<1>4. ASSUME NEW n \in 0 .. Len(toLobby')
      PROVE  lobby'.coin + Carried(SubSeq(toLobby', 1, n), "change") >= 0
  <2>1. CASE n \in 0 .. Len(toLobby) BY <1>2, <2>1 DEF CopyAgrees
  <2>2. CASE n = Len(toLobby) + 1
    <3>1. SubSeq(toLobby', 1, n) = toLobby' BY <1>2, <2>2
    <3>2. lobby'.coin + Carried(toLobby', "change") = (game.coin + v) + game.locked
                                                        + Carried(toGame, "update")
      BY <1>3
    <3> DEFINE a == game.coin + v
               k == game.locked
               u == Carried(toGame, "update")
    <3>3. a \in Int /\ a >= 0 /\ k \in Nat /\ u \in Int /\ u >= 0 BY <1>1
    <3>4. lobby'.coin + Carried(toLobby', "change") = a + k + u BY <3>2
    <3> HIDE DEF a, k, u
    <3>6. a + k + u >= 0 BY ONLY <3>3
    <3>5. lobby'.coin + Carried(toLobby', "change") >= 0 BY <3>4, <3>6
    <3> QED BY <3>1, <3>5
  <2> QED BY <1>2, <2>1, <2>2
<1>5. game'.coin >= 0 OBVIOUS
<1> QED BY <1>3, <1>4, <1>5 DEF CopyAgrees

(* The settlement reaches the lobby, which can pay it.                     *)
LEMMA CopyPaid ==
    ASSUME TypeOK, CopyAgrees, NEW v \in Int, UNCHANGED <<game, toGame>>,
           toLobby # <<>>, toLobby' = Tail(toLobby),
           Head(toLobby).kind = "change", Head(toLobby).amount = v,
           lobby'.coin = lobby.coin + Clamped(lobby.coin, v)
    PROVE  CopyAgrees'
<1>1. /\ lobby.coin \in Int /\ game.coin \in Int /\ game.coin >= 0 /\ game.locked \in Nat
      /\ Carried(toGame, "update") \in Int /\ Carried(toLobby, "change") \in Int
      /\ game.coin + game.locked + Carried(toGame, "update")
           = lobby.coin + Carried(toLobby, "change")
  BY CopyFacts
<1>2. /\ Carried(toLobby, "change") = v + Carried(toLobby', "change")
      /\ Carried(toLobby', "change") \in Int
      /\ 1 \in 0 .. Len(toLobby) /\ Carried(SubSeq(toLobby, 1, 1), "change") = v
      /\ \A n \in 0 .. Len(toLobby') :
           /\ n + 1 \in 0 .. Len(toLobby)
           /\ Carried(SubSeq(toLobby', 1, n), "change") \in Int
           /\ Carried(SubSeq(toLobby, 1, n + 1), "change")
                = v + Carried(SubSeq(toLobby', 1, n), "change")
  BY LobbyTaken
<1>3. lobby.coin + v >= 0 BY <1>2 DEF CopyAgrees
<1>4. lobby'.coin = lobby.coin + v BY <1>1, <1>3, ClampedType
<1>5. game'.coin + game'.locked + Carried(toGame', "update")
        = lobby'.coin + Carried(toLobby', "change")
  BY <1>1, <1>2, <1>4
<1>6. ASSUME NEW n \in 0 .. Len(toLobby')
      PROVE  lobby'.coin + Carried(SubSeq(toLobby', 1, n), "change") >= 0
  <2>1. /\ Carried(SubSeq(toLobby', 1, n), "change") \in Int
        /\ Carried(SubSeq(toLobby, 1, n + 1), "change")
             = v + Carried(SubSeq(toLobby', 1, n), "change")
    BY <1>2
  <2>2. lobby.coin + Carried(SubSeq(toLobby, 1, n + 1), "change") >= 0
    BY <1>2 DEF CopyAgrees
  <2> QED BY <1>1, <1>4, <2>1, <2>2
<1> QED BY <1>1, <1>5, <1>6 DEF CopyAgrees

LEMMA CopyLobbyReceives ==
    ASSUME TypeOK, InGame, CopyAgrees, InGame', LobbyReceives
    PROVE  CopyAgrees'
<1> DEFINE v == Head(toLobby).amount
<1>1. Head(toLobby) \in ToLobby /\ toLobby # <<>> /\ toLobby' = Tail(toLobby)
  BY HeadTailProperties DEF LobbyReceives, TypeOK
<1>2. v \in Int BY <1>1, MessageTypes
<1>3. ~LeaveSvr
  <2>1. lobby \in Lobby BY DEF TypeOK
  <2>2. LeaveSvr => ~lobby'.away BY <2>1, LobbyAway DEF LeaveSvr
  <2> QED BY <2>2 DEF InGame
<1>4. Head(toLobby).kind = "change" /\ NotifyChangeAccountData(v)
  BY <1>3 DEF LobbyReceives
<1>5. UNCHANGED <<game, toGame>> BY DEF LobbyReceives
<1>6. Head(toLobby).amount = v OBVIOUS
<1> HIDE DEF v
<1>7. Exists /\ SyncChange(v) BY <1>4 DEF NotifyChangeAccountData, InGame, Exists
<1>8. lobby'.coin = lobby.coin + Clamped(lobby.coin, v) BY <1>2, <1>7, SyncChangeType
<1> QED BY <1>1, <1>2, <1>4, <1>5, <1>6, <1>8, CopyPaid

LEMMA CopyGameReceives ==
    ASSUME TypeOK, Recharges, column = "coin", InGame, CopyAgrees, GameReceives
    PROVE  CopyAgrees'
<1> DEFINE m == Head(toGame)
           v == m.amount
<1>1. toGame # <<>> /\ toGame' = Tail(toGame) /\ UNCHANGED <<lobby, toLobby>>
  BY DEF GameReceives
<1>2. \/ m.kind = "enter" /\ game' = Entered(v)
      \/ m.kind = "update" /\ game' = Updated(v)
  BY DEF GameReceives
<1>3. /\ m \in ToGame
      /\ m.kind = "update" =>
           Carried(toGame, "update") = v + Carried(toGame', "update")
      /\ m.kind # "update" => Carried(toGame, "update") = Carried(toGame', "update")
      /\ Carried(toGame', "update") \in Int
      /\ m = toGame[1] /\ 1 \in 1 .. Len(toGame)
  BY <1>1, GameTaken
<1>4. v \in Int BY <1>3, MessageTypes
<1>5. m.kind = "update" => v >= 0 BY <1>3 DEF Recharges
<1> HIDE DEF m, v
<1>6. game \in Game /\ game.here BY DEF TypeOK, InGame
<1>7. CASE m.kind = "enter" /\ game' = Entered(v)
  <2>1. game' = game BY <1>6, <1>7 DEF Entered
  <2>2. Carried(toGame', "update") = Carried(toGame, "update") BY <1>3, <1>7
  <2> QED BY <1>1, <2>1, <2>2, CopySame
<1>8. CASE m.kind = "update" /\ game' = Updated(v)
  <2>1. /\ lobby.coin \in Int /\ game.coin \in Int /\ game.coin >= 0 /\ game.locked \in Nat
        /\ Carried(toLobby, "change") \in Int
        /\ game.coin + game.locked + Carried(toGame, "update")
             = lobby.coin + Carried(toLobby, "change")
    BY CopyFacts
  <2>2. game' = [game EXCEPT !.coin = game.coin + Clamped(game.coin, v)]
    BY <1>6, <1>8 DEF Updated
  <2>3. game.coin + v >= 0 BY <1>4, <1>5, <1>8, <2>1
  <2>4. Clamped(game.coin, v) = v BY <1>4, <2>1, <2>3, ClampedType
  <2>5. game.coin + v \in Int BY <1>4, <2>1
  <2>6. game'.coin = game.coin + v /\ game'.locked = game.locked
    BY <1>6, <2>2, <2>4, <2>5, GameCoin
  <2>7. Carried(toGame, "update") = v + Carried(toGame', "update") BY <1>3, <1>8
  <2>8. game'.coin + game'.locked + Carried(toGame', "update")
        = game.coin + game.locked + Carried(toGame, "update")
    BY <1>3, <1>4, <2>1, <2>6, <2>7
  <2> QED BY <1>1, <2>1, <2>3, <2>6, <2>8 DEF CopyAgrees
<1> QED BY <1>2, <1>7, <1>8

LEMMA CopyPhpChange ==
    ASSUME TypeOK, column = "coin", InGame, CopyAgrees, NEW v \in Int, PhpChange(v)
    PROVE  CopyAgrees'
<1> DEFINE m == [kind |-> "update", amount |-> v]
<1>1. Exists /\ lobby.away BY DEF InGame, Exists
<1>2. /\ ~(v < 0)
      /\ lobby' = [lobby EXCEPT !.coin = lobby.coin + Clamped(lobby.coin, v)]
      /\ toGame' = Append(toGame, m)
      /\ UNCHANGED <<game, toLobby>>
  BY <1>1 DEF PhpChange
<1>3. m \in ToGame /\ m.kind = "update" /\ m.amount = v BY DEF ToGame
<1> HIDE DEF m
<1>4. Carried(toGame', "update") = Carried(toGame, "update") + v
  BY <1>2, <1>3, GameSent
<1>5. lobby.coin \in Int /\ lobby.coin >= 0 BY CopyFacts
<1>6. v >= 0 /\ lobby.coin + v >= 0 /\ lobby.coin + v \in Int BY <1>2, <1>5
<1>7. Clamped(lobby.coin, v) = v BY <1>5, <1>6, ClampedType
<1>8. lobby \in Lobby BY DEF TypeOK
<1>9. lobby'.coin = lobby.coin + v BY <1>1, <1>2, <1>6, <1>7, <1>8, LobbyCoin DEF Exists
<1> QED BY <1>2, <1>4, <1>6, <1>9, CopyRecharged

LEMMA CopyEnterGameSvr ==
    ASSUME TypeOK, CopyAgrees, EnterGameSvr
    PROVE  CopyAgrees'
<1> DEFINE m == [kind |-> "enter", amount |-> lobby.coin]
<1>1. /\ lobby \in Lobby /\ lobby.state # "none"
      /\ lobby' = [lobby EXCEPT !.away = TRUE]
      /\ toGame' = Append(toGame, m)
      /\ UNCHANGED <<game, toLobby>>
  BY DEF EnterGameSvr, TypeOK
<1>2. m \in ToGame /\ m.kind = "enter" BY <1>1, LobbyTypes DEF ToGame
<1> HIDE DEF m
<1>3. Carried(toGame', "update") = Carried(toGame, "update") BY <1>1, <1>2, GameSent
<1>4. lobby'.coin = lobby.coin BY <1>1, LobbyAway
<1> QED BY <1>1, <1>3, <1>4, CopySame

LEMMA CopyChangeScoreValueByUID ==
    ASSUME TypeOK, Recharges, column = "coin", InGame, CopyAgrees,
           NEW v \in Int, ChangeScoreValueByUID(v)
    PROVE  CopyAgrees'
<1> DEFINE c == Clamped(game.coin, v)
<1>1. game \in Game /\ game.here /\ ~game.owed BY GameTypes DEF TypeOK, InGame
<1>2. /\ game' = [game EXCEPT !.coin = game.coin + c]
      /\ toLobby' = Append(toLobby, Change(c))
      /\ UNCHANGED <<lobby, toGame>>
  BY <1>1 DEF ChangeScoreValueByUID
<1>3. game.coin \in Int /\ game.coin >= 0 BY CopyFacts
<1>4. c \in Int /\ game.coin + c >= 0 BY <1>3, ClampedType
<1> HIDE DEF c
<1>5. game.coin + c \in Int BY <1>3, <1>4
<1>6. game'.coin = game.coin + c /\ game'.locked = game.locked
  BY <1>1, <1>2, <1>5, GameCoin
<1>7. Carried(toGame, "update") >= 0 BY NoDebits
<1> QED BY <1>2, <1>4, <1>6, <1>7, CopySettled

LEMMA CopyGameChange ==
    ASSUME TypeOK, Recharges, column = "coin", CopyAgrees, NEW v \in Int, GameChange(v)
    PROVE  CopyAgrees'
<1>1. /\ game \in Game /\ game.here /\ CanChange(game.coin, v)
      /\ game' = [game EXCEPT !.coin = game.coin + v]
      /\ toLobby' = Append(toLobby, Change(v))
      /\ UNCHANGED <<lobby, toGame>>
  BY DEF GameChange, TypeOK
<1>2. game.coin \in Int /\ game.coin >= 0 BY CopyFacts
<1>3. game.coin + v >= 0 /\ game.coin + v \in Int BY <1>1, <1>2, ClampedType
<1>4. game'.coin = game.coin + v /\ game'.locked = game.locked
  BY <1>1, <1>3, GameCoin
<1>5. Carried(toGame, "update") >= 0 BY NoDebits
<1> QED BY <1>1, <1>3, <1>4, <1>5, CopySettled

(* What an application for the bank locks is still the player's.           *)
LEMMA CopyMoved ==
    ASSUME TypeOK, CopyAgrees, UNCHANGED <<lobby, toGame, toLobby>>,
           game'.coin + game'.locked = game.coin + game.locked, game'.coin >= 0
    PROVE  CopyAgrees'
  BY DEF CopyAgrees

LEMMA CopyLocked ==
    ASSUME TypeOK, CopyAgrees, NEW v \in Int, LockApplyScore(v)
    PROVE  CopyAgrees'
<1>1. /\ game \in Game /\ game.here /\ game.locked = 0 /\ v > 0 /\ v <= game.coin
      /\ game' = Here(game.coin - v, v)
      /\ UNCHANGED <<lobby, toGame, toLobby>>
  BY DEF TypeOK, LockApplyScore, channels
<1> DEFINE c == game.coin - v
<1>2. game.coin \in Int /\ c \in Int /\ v \in Nat BY <1>1, GameTypes
<1>3. game'.coin = c /\ game'.locked = v BY <1>1, <1>2, GameHere
<1>4. game'.coin + game'.locked = game.coin + game.locked /\ game'.coin >= 0
  BY <1>1, <1>2, <1>3
<1> QED BY <1>1, <1>4, CopyMoved

LEMMA CopyUnlocked ==
    ASSUME TypeOK, CopyAgrees, UnLockApplyScore
    PROVE  CopyAgrees'
<1>1. /\ game \in Game /\ game.here
      /\ game' = Here(game.coin + game.locked, 0)
      /\ UNCHANGED <<lobby, toGame, toLobby>>
  BY DEF TypeOK, UnLockApplyScore, channels
<1>2. game.coin \in Int /\ game.coin >= 0 /\ game.locked \in Nat BY CopyFacts
<1> DEFINE c == game.coin + game.locked
<1>5. c \in Int /\ 0 \in Nat BY <1>2
<1>3. game'.coin = c /\ game'.locked = 0 BY <1>1, <1>5, GameHere
<1>4. game'.coin + game'.locked = game.coin + game.locked /\ game'.coin >= 0
  BY <1>2, <1>3
<1> QED BY <1>1, <1>4, CopyMoved

LEMMA CopyStep ==
    ASSUME TypeOK, Recharges, column = "coin", InGame, CopyAgrees, InGame',
           [Next /\ UNCHANGED column]_vars
    PROVE  CopyAgrees'
<1>1. CASE UNCHANGED <<lobby, game, toGame, toLobby>> BY <1>1, CopySame
<1>2. CASE OnProcessEvent \/ UNCHANGED vars
  BY <1>1, <1>2 DEF OnProcessEvent, vars, channels
<1>3. CASE Login BY <1>3 DEF Login, InGame
<1>4. CASE OnLoadAccountDataEvent
  BY <1>1, <1>4 DEF OnLoadAccountDataEvent, InGame, Loading, channels
<1>5. CASE OnLoadOtherDataEvent BY <1>5 DEF OnLoadOtherDataEvent, InGame
<1>6. CASE CheckRecoverPlayer BY <1>6 DEF CheckRecoverPlayer, InGame
<1>7. CASE EnterGameSvr BY <1>7, CopyEnterGameSvr
<1>8. CASE LobbyReceives BY <1>8, CopyLobbyReceives
<1>9. CASE GameReceives BY <1>9, CopyGameReceives
<1>10. CASE OnLoginOut
  <2>1. ~game'.here BY <1>10, GameLeft DEF OnLoginOut
  <2> QED BY <2>1 DEF InGame
<1>11. ASSUME NEW v \in Amounts,
              LobbyChange(v) \/ GiveSafeBox(v) \/ PhpChange(v)
                \/ ChangeScoreValueByUID(v) \/ GameChange(v) \/ LockApplyScore(v)
       PROVE  CopyAgrees'
  <2>1. v \in Int BY AmountsAre
  <2>2. CASE LobbyChange(v) BY <2>2 DEF LobbyChange, InGame
  <2>3. CASE GiveSafeBox(v) BY <2>3 DEF GiveSafeBox
  <2>4. CASE PhpChange(v) BY <2>1, <2>4, CopyPhpChange
  <2>5. CASE ChangeScoreValueByUID(v) BY <2>1, <2>5, CopyChangeScoreValueByUID
  <2>6. CASE GameChange(v) BY <2>1, <2>6, CopyGameChange
  <2>7. CASE LockApplyScore(v) BY <2>1, <2>7, CopyLocked
  <2> QED BY <1>11, <2>2, <2>3, <2>4, <2>5, <2>6, <2>7
<1>12. CASE UnLockApplyScore BY <1>12, CopyUnlocked
<1> QED BY <1>2, <1>3, <1>4, <1>5, <1>6, <1>7, <1>8, <1>9, <1>10, <1>11, <1>12 DEF Next

(* The game server's copy, once it agrees with the lobby's object up to    *)
(* what is on the way, goes on agreeing for as long as the player is in    *)
(* the game, and the lobby can pay every settlement on the way             *)
(* (handle_msg_enter_svr, CGamePlayer::SyncChangeAccountValue).            *)
THEOREM CopyGoesOnAgreeing == Spec => CopyStaysRight
<1>1. TypeOK /\ Recharges /\ [Next /\ UNCHANGED column]_vars => Recharges'
  BY RechargesStep
<1>2. TypeOK /\ Recharges /\ [Next /\ UNCHANGED column]_vars
        => [column = "coin" /\ InGame /\ CopyAgrees /\ InGame' => CopyAgrees']_vars
  BY CopyStep
<1> QED BY <1>1, <1>2, RechargesInit, AccountTypeCorrect, PTL DEF Spec, CopyStaysRight

=============================================================================
