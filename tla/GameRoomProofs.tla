--------------------------- MODULE GameRoomProofs ---------------------------
(***************************************************************************)
(* Theorems about GameRoom, for any players, addresses, limits and tables. *)
(*                                                                         *)
(* Membership is inductive between handlers, but the handlers are composed *)
(* of member functions, and between TakeChair and LeaveMarry a player is   *)
(* both seated and queued.  Sound(w, X) is Membership of a state w of the  *)
(* room but for the players X, which may be both.  Civil(w) is what the    *)
(* refinement needs: what was tested when a player sat down or got ready   *)
(* still holds.  There is one lemma per member function.                   *)
(***************************************************************************)
EXTENDS GameRoom, FiniteSetTheorems, TLAPS

Sound(w, X) ==
    /\ w \in Room
    /\ \A p \in Player : \A t \in Table : p \in w.seated[t] <=> w.table[p] = t
    /\ \A p \in Player :
         /\ AtTable(w, p) => p \in w.members /\ (p \in X \/ ~Queued(w, p))
         /\ Queued(w, p) => p \in w.members
         /\ p \in w.ready => AtTable(w, p)
    /\ w.playerNum = Cardinality(w.members)

Civil(w) ==
    /\ \A t \in Table : \A p, q \in w.seated[t] :
         p # q /\ Ip[p] = Ip[q] => Ip[p] = NoIp
    /\ \A t \in Table : \A p, q \in w.seated[t] : p \in w.ready => ~Blocked(p, q)
    /\ \A t \in w.playing : Cardinality(w.seated[t]) = Chairs

(* v is w but for tables that are not playing.                             *)
Quiet(w, v) ==
    /\ v.playing = w.playing
    /\ \A t \in w.playing : v.seated[t] = w.seated[t]

LEMMA TableFacts ==
    /\ NoTable \notin Table /\ NotQueued \notin Table /\ NotQueued # NoTable
  BY TablesAssumption DEF Table, NoTable, NotQueued

LEMMA LeaveTableParts ==
    ASSUME NEW w \in Room, NEW p \in Player, AtTable(w, p)
    PROVE  /\ LeaveTable(w, p) \in Room
           /\ LeaveTable(w, p).members = w.members
           /\ LeaveTable(w, p).playerNum = w.playerNum
           /\ LeaveTable(w, p).queue = w.queue
           /\ LeaveTable(w, p).playing = w.playing
           /\ LeaveTable(w, p).made = w.made
           /\ LeaveTable(w, p).ready = w.ready \ {p}
           /\ LeaveTable(w, p).table = [w.table EXCEPT ![p] = NoTable]
           /\ LeaveTable(w, p).seated =
                [w.seated EXCEPT ![w.table[p]] = @ \ {p}]
  BY DEF LeaveTable, AtTable, Room

(* Leaving a table that is not playing.                                    *)
LEMMA LeaveTableSound ==
    ASSUME NEW w, NEW X, NEW p \in Player, Sound(w, X), CanLeaveTable(w, p)
    PROVE  /\ Sound(LeaveTable(w, p), X)
           /\ Civil(w) => Civil(LeaveTable(w, p))
           /\ Quiet(w, LeaveTable(w, p))
           /\ LeaveTable(w, p).table[p] = NoTable
           /\ LeaveTable(w, p).members = w.members
           /\ LeaveTable(w, p).queue = w.queue
           /\ LeaveTable(w, p).made = w.made
<1> DEFINE v == LeaveTable(w, p)
<1>1. CASE ~AtTable(w, p)
  <2>1. v = w BY <1>1 DEF LeaveTable
  <2> QED BY <2>1, <1>1 DEF Quiet, AtTable
<1>2. CASE AtTable(w, p)
  <2>1. w \in Room BY DEF Sound
  <2> DEFINE t == w.table[p]
  <2>2. t \in Table /\ t \notin w.playing
    BY <2>1, <1>2 DEF Room, AtTable, CanLeaveTable
  <2>3. /\ v \in Room
        /\ v.members = w.members
        /\ v.playerNum = w.playerNum
        /\ v.queue = w.queue
        /\ v.playing = w.playing
        /\ v.made = w.made
        /\ v.ready = w.ready \ {p}
        /\ v.table = [w.table EXCEPT ![p] = NoTable]
        /\ v.seated = [w.seated EXCEPT ![t] = @ \ {p}]
    BY <2>1, <1>2, LeaveTableParts
  <2> HIDE DEF v
  <2>4. /\ v.table[p] = NoTable
        /\ \A q \in Player \ {p} : v.table[q] = w.table[q]
        /\ v.seated[t] = w.seated[t] \ {p}
        /\ \A u \in Table \ {t} : v.seated[u] = w.seated[u]
    BY <2>1, <2>2, <2>3 DEF Room
  <2>5. w.playing \subseteq Table BY <2>1 DEF Room
  <2>6. Quiet(w, v) BY <2>2, <2>3, <2>4, <2>5 DEF Quiet
  <2>7. Sound(v, X)
    <3>1. \A q \in Player : \A u \in Table : q \in v.seated[u] <=> v.table[q] = u
      BY <2>2, <2>4, TableFacts DEF Sound
    <3>2. \A q \in Player :
             /\ AtTable(v, q) => q \in v.members /\ (q \in X \/ ~Queued(v, q))
             /\ Queued(v, q) => q \in v.members
             /\ q \in v.ready => AtTable(v, q)
      BY <2>3, <2>4 DEF Sound, AtTable, Queued
    <3> QED BY <2>3, <3>1, <3>2 DEF Sound
  <2>8. ASSUME Civil(w) PROVE Civil(v)
    <3>1. \A u \in Table : v.seated[u] \subseteq w.seated[u]
      BY <2>2, <2>4
    <3>2. v.ready \subseteq w.ready BY <2>3
    <3>3. \A u \in v.playing : Cardinality(v.seated[u]) = Chairs
      BY <2>6, <2>8 DEF Quiet, Civil
    <3> QED BY <2>8, <3>1, <3>2, <3>3 DEF Civil
  <2> QED BY <2>3, <2>4, <2>6, <2>7, <2>8 DEF v
<1> QED BY <1>1, <1>2

LEMMA JoinMarryParts ==
    ASSUME NEW w \in Room, NEW p \in Player,
           NEW x \in Table \cup {NoTable}, ~Queued(w, p)
    PROVE  /\ JoinMarry(w, p, x) \in Room
           /\ JoinMarry(w, p, x).members = w.members
           /\ JoinMarry(w, p, x).playerNum = w.playerNum
           /\ JoinMarry(w, p, x).queue = [w.queue EXCEPT ![p] = x]
           /\ JoinMarry(w, p, x).playing = w.playing
           /\ JoinMarry(w, p, x).made = w.made
           /\ JoinMarry(w, p, x).ready = w.ready
           /\ JoinMarry(w, p, x).table = w.table
           /\ JoinMarry(w, p, x).seated = w.seated
  BY DEF JoinMarry, Room

LEMMA JoinMarrySound ==
    ASSUME NEW w, NEW X, NEW p \in Player, NEW x \in Table \cup {NoTable},
           Sound(w, X), p \in w.members, ~AtTable(w, p)
    PROVE  /\ Sound(JoinMarry(w, p, x), X)
           /\ Civil(w) => Civil(JoinMarry(w, p, x))
           /\ Quiet(w, JoinMarry(w, p, x))
           /\ JoinMarry(w, p, x).members = w.members
           /\ JoinMarry(w, p, x).made = w.made
<1> DEFINE v == JoinMarry(w, p, x)
<1>1. CASE Queued(w, p)
  <2>1. v = w BY <1>1 DEF JoinMarry
  <2> QED BY <2>1 DEF Quiet
<1>2. CASE ~Queued(w, p)
  <2>1. w \in Room BY DEF Sound
  <2>2. /\ v \in Room
        /\ v.members = w.members
        /\ v.playerNum = w.playerNum
        /\ v.queue = [w.queue EXCEPT ![p] = x]
        /\ v.playing = w.playing
        /\ v.made = w.made
        /\ v.ready = w.ready
        /\ v.table = w.table
        /\ v.seated = w.seated
    BY <2>1, <1>2, JoinMarryParts
  <2> HIDE DEF v
  <2>3. \A q \in Player \ {p} : v.queue[q] = w.queue[q]
    BY <2>1, <2>2 DEF Room
  <2>4. Sound(v, X)
    BY <2>2, <2>3 DEF Sound, AtTable, Queued
  <2>5. Civil(w) => Civil(v)
    BY <2>2 DEF Civil
  <2> QED BY <2>2, <2>4, <2>5 DEF Quiet, v
<1> QED BY <1>1, <1>2

LEMMA LeaveMarrySound ==
    ASSUME NEW w, NEW X, NEW p \in Player, Sound(w, X)
    PROVE  /\ Sound(LeaveMarry(w, p), X \ {p})
           /\ Civil(w) => Civil(LeaveMarry(w, p))
           /\ Quiet(w, LeaveMarry(w, p))
           /\ LeaveMarry(w, p).queue[p] = NotQueued
           /\ LeaveMarry(w, p).members = w.members
           /\ LeaveMarry(w, p).table = w.table
           /\ LeaveMarry(w, p).made = w.made
<1> DEFINE v == LeaveMarry(w, p)
<1>1. w \in Room BY DEF Sound
<1>2. /\ v \in Room
      /\ v.members = w.members
      /\ v.playerNum = w.playerNum
      /\ v.queue = [w.queue EXCEPT ![p] = NotQueued]
      /\ v.playing = w.playing
      /\ v.made = w.made
      /\ v.ready = w.ready
      /\ v.table = w.table
      /\ v.seated = w.seated
  BY <1>1 DEF LeaveMarry, Room
<1> HIDE DEF v
<1>3. /\ v.queue[p] = NotQueued
      /\ \A q \in Player \ {p} : v.queue[q] = w.queue[q]
  BY <1>1, <1>2 DEF Room
<1>4. Sound(v, X \ {p})
  BY <1>2, <1>3 DEF Sound, AtTable, Queued
<1>5. Civil(w) => Civil(v)
  BY <1>2 DEF Civil
<1> QED BY <1>2, <1>3, <1>4, <1>5 DEF Quiet, v

LEMMA EnterRoomSound ==
    ASSUME NEW w, NEW X, NEW p \in Player, Sound(w, X)
    PROVE  /\ Sound(EnterRoom(w, p), X)
           /\ Civil(w) => Civil(EnterRoom(w, p))
           /\ Quiet(w, EnterRoom(w, p))
           /\ EnterRoom(w, p).members = w.members \cup {p}
           /\ EnterRoom(w, p).table = w.table
           /\ EnterRoom(w, p).made = w.made
<1> DEFINE v == EnterRoom(w, p)
<1>1. CASE p \in w.members
  <2>1. v = w BY <1>1 DEF EnterRoom
  <2> QED BY <2>1, <1>1 DEF Quiet
<1>2. CASE p \notin w.members
  <2>1. w \in Room BY DEF Sound
  <2>2. /\ v \in Room
        /\ v.members = w.members \cup {p}
        /\ v.playerNum = w.playerNum + 1
        /\ v.queue = w.queue
        /\ v.playing = w.playing
        /\ v.made = w.made
        /\ v.ready = w.ready
        /\ v.table = w.table
        /\ v.seated = w.seated
    <3> DEFINE m == w.members \cup {p}
               n == w.playerNum + 1
    <3>1. m \in SUBSET Player /\ n \in Nat
      BY <2>1 DEF Room
    <3>2. v = [w EXCEPT !.members = m, !.playerNum = n]
      BY <1>2 DEF EnterRoom
    <3> HIDE DEF v, m, n
    <3> QED BY <2>1, <3>1, <3>2, Zenon DEF Room, m, n
  <2> HIDE DEF v
  <2>3. IsFiniteSet(w.members)
    BY <2>1, PlayerAssumption, FS_Subset DEF Room
  <2>4. Cardinality(v.members) = Cardinality(w.members) + 1
    BY <2>2, <2>3, <1>2, FS_AddElement
  <2>5. Sound(v, X)
    BY <2>2, <2>4 DEF Sound, AtTable, Queued
  <2>6. Civil(w) => Civil(v)
    BY <2>2 DEF Civil
  <2> QED BY <2>2, <2>5, <2>6 DEF Quiet, v
<1> QED BY <1>1, <1>2

LEMMA LeaveRoomSound ==
    ASSUME NEW w, NEW X, NEW p \in Player, Sound(w, X)
    PROVE  /\ Sound(LeaveRoom(w, p), X \ {p}) \/ LeaveRoom(w, p) = w
           /\ Sound(LeaveRoom(w, p), X)
           /\ Civil(w) => Civil(LeaveRoom(w, p))
           /\ Quiet(w, LeaveRoom(w, p))
           /\ LeaveRoom(w, p).members \subseteq w.members
           /\ LeaveRoom(w, p).made = w.made
           /\ CanLeaveTable(w, p) =>
                p \notin LeaveRoom(w, p).members /\ Sound(LeaveRoom(w, p), X \ {p})
<1> DEFINE v == LeaveRoom(w, p)
           u == LeaveMarry(LeaveTable(w, p), p)
<1>1. CASE ~(p \in w.members /\ CanLeaveTable(w, p))
  <2>1. v = w BY <1>1 DEF LeaveRoom
  <2>2. p \notin w.members => Sound(w, X \ {p})
    BY DEF Sound
  <2> QED BY <2>1, <2>2, <1>1 DEF Quiet
<1>2. CASE p \in w.members /\ CanLeaveTable(w, p)
  <2>1. /\ Sound(LeaveTable(w, p), X)
        /\ Civil(w) => Civil(LeaveTable(w, p))
        /\ Quiet(w, LeaveTable(w, p))
        /\ LeaveTable(w, p).table[p] = NoTable
        /\ LeaveTable(w, p).members = w.members
        /\ LeaveTable(w, p).made = w.made
    BY <1>2, LeaveTableSound
  <2>2. /\ Sound(u, X \ {p})
        /\ Civil(w) => Civil(u)
        /\ Quiet(w, u)
        /\ u.table[p] = NoTable
        /\ u.queue[p] = NotQueued
        /\ u.members = w.members
        /\ u.made = w.made
    BY <2>1, LeaveMarrySound DEF Quiet
  <2> HIDE DEF u
  <2>3. IsFiniteSet(w.members) /\ w \in Room
    BY PlayerAssumption, FS_Subset DEF Sound, Room
  <2>4. /\ Cardinality(w.members) \in Nat \ {0}
        /\ Cardinality(w.members \ {p}) = Cardinality(w.members) - 1
        /\ w.playerNum = Cardinality(w.members)
        /\ u.playerNum = Cardinality(w.members)
    BY <1>2, <2>2, <2>3, FS_RemoveElement, FS_CardinalityType, FS_EmptySet DEF Sound
  <2>5. u \in Room /\ u = LeaveMarry(LeaveTable(w, p), p)
    BY <2>2 DEF Sound, u
  <2>6. /\ v \in Room
        /\ v.members = u.members \ {p}
        /\ v.playerNum = u.playerNum - 1
        /\ v.queue = u.queue
        /\ v.playing = u.playing
        /\ v.made = u.made
        /\ v.ready = u.ready
        /\ v.table = u.table
        /\ v.seated = u.seated
    <3> DEFINE m == u.members \ {p}
               n == u.playerNum - 1
    <3>1. m \in SUBSET Player /\ n \in Nat
      BY <2>4, <2>5 DEF Room
    <3>2. v = [u EXCEPT !.members = m, !.playerNum = n]
      BY <1>2, <2>5 DEF LeaveRoom
    <3> HIDE DEF v, m, n
    <3> QED BY <2>5, <3>1, <3>2, Zenon DEF Room, m, n
  <2> HIDE DEF v
  <2>7. Sound(v, X \ {p})
    <3>1. \A q \in Player : \A t \in Table : q \in v.seated[t] <=> v.table[q] = t
      BY <2>2, <2>6 DEF Sound
    <3>2. \A q \in Player :
             /\ AtTable(v, q) => q \in v.members /\ (q \in X \ {p} \/ ~Queued(v, q))
             /\ Queued(v, q) => q \in v.members
             /\ q \in v.ready => AtTable(v, q)
      BY <2>2, <2>6 DEF Sound, AtTable, Queued
    <3> QED BY <2>2, <2>4, <2>6, <3>1, <3>2 DEF Sound
  <2>8. Sound(v, X) BY <2>7 DEF Sound
  <2>9. Civil(w) => Civil(v)
    BY <2>2, <2>6 DEF Civil
  <2> QED BY <2>2, <2>6, <2>7, <2>8, <2>9 DEF Quiet, v
<1> QED BY <1>1, <1>2

(* OnLoginOut, LeaveTableReq: leave the table and then the room.           *)
LEMMA LeaveBothSound ==
    ASSUME NEW w, NEW X, NEW p \in Player, Sound(w, X), CanLeaveTable(w, p)
    PROVE  LET v == LeaveRoom(LeaveTable(w, p), p)
           IN  /\ Sound(v, X \ {p})
               /\ Civil(w) => Civil(v)
               /\ Quiet(w, v)
               /\ v.members \subseteq w.members \ {p}
               /\ v.made = w.made
<1> DEFINE u == LeaveTable(w, p)
           v == LeaveRoom(u, p)
<1>1. /\ Sound(u, X)
      /\ Civil(w) => Civil(u)
      /\ Quiet(w, u)
      /\ u.table[p] = NoTable
      /\ u.members = w.members
      /\ u.made = w.made
  BY LeaveTableSound
<1>2. CanLeaveTable(u, p)
  BY <1>1 DEF CanLeaveTable, AtTable
<1> HIDE DEF u
<1>3. /\ Sound(v, X \ {p})
      /\ Civil(u) => Civil(v)
      /\ Quiet(u, v)
      /\ v.members \subseteq u.members
      /\ v.made = u.made
      /\ p \notin v.members
  BY <1>1, <1>2, LeaveRoomSound
<1> HIDE DEF v
<1>4. /\ Sound(v, X \ {p})
      /\ Civil(w) => Civil(v)
      /\ Quiet(w, v)
      /\ v.members \subseteq w.members \ {p}
      /\ v.made = w.made
  BY <1>1, <1>3 DEF Quiet
<1> QED BY <1>4 DEF u, v

LEMMA FastJoinSound ==
    ASSUME NEW w, NEW X, NEW p \in Player, Sound(w, X)
    PROVE  /\ Sound(FastJoinTable(w, p), X)
           /\ Civil(w) => Civil(FastJoinTable(w, p))
           /\ Quiet(w, FastJoinTable(w, p))
           /\ FastJoinTable(w, p).members = w.members
           /\ FastJoinTable(w, p).made = w.made
<1>1. CASE ~(p \in w.members /\ CanLeaveTable(w, p))
  BY <1>1 DEF FastJoinTable, Quiet
<1>2. CASE p \in w.members /\ CanLeaveTable(w, p)
  <2> DEFINE u == LeaveTable(w, p)
             v == JoinMarry(u, p, w.table[p])
  <2>1. /\ Sound(u, X)
        /\ Civil(w) => Civil(u)
        /\ Quiet(w, u)
        /\ u.table[p] = NoTable
        /\ u.members = w.members
        /\ u.made = w.made
    BY <1>2, LeaveTableSound
  <2>2. w.table[p] \in Table \cup {NoTable}
    BY DEF Sound, Room
  <2>3. ~AtTable(u, p)
    BY <2>1 DEF AtTable
  <2> HIDE DEF u
  <2>4. /\ Sound(v, X)
        /\ Civil(u) => Civil(v)
        /\ Quiet(u, v)
        /\ v.members = u.members
        /\ v.made = u.made
    BY <1>2, <2>1, <2>2, <2>3, JoinMarrySound
  <2>5. FastJoinTable(w, p) = v
    BY <1>2 DEF FastJoinTable, u
  <2> HIDE DEF v
  <2> QED BY <2>1, <2>4, <2>5 DEF Quiet
<1> QED BY <1>1, <1>2

LEMMA BlockedSymmetric ==
    ASSUME NEW p, NEW q, Blocked(p, q)
    PROVE  Blocked(q, p)
  BY DEF Blocked

LEMMA BecomesReady ==
    ASSUME NEW w, NEW X, NEW p \in Player, Sound(w, X), AtTable(w, p),
           ~IsExistBlock(w, p, w.table[p]),
           NEW v, v = [w EXCEPT !.ready = @ \cup {p}]
    PROVE  /\ Sound(v, X)
           /\ Civil(w) => Civil(v)
           /\ Quiet(w, v)
           /\ v.members = w.members
           /\ v.made = w.made
<1>1. w \in Room BY DEF Sound
<1>2. /\ v \in Room
      /\ v.members = w.members
      /\ v.playerNum = w.playerNum
      /\ v.queue = w.queue
      /\ v.playing = w.playing
      /\ v.made = w.made
      /\ v.ready = w.ready \cup {p}
      /\ v.table = w.table
      /\ v.seated = w.seated
  BY <1>1 DEF Room
<1>3. Sound(v, X)
  BY <1>2 DEF Sound, AtTable, Queued
<1>4. ASSUME Civil(w) PROVE Civil(v)
  <2>1. ASSUME NEW t \in Table, NEW q \in w.seated[t], NEW r \in w.seated[t],
               q \in v.ready
        PROVE  ~Blocked(q, r)
    <3>1. CASE q \in w.ready BY <3>1, <1>4, <2>1 DEF Civil
    <3>2. CASE q = p
      <4>1. w.table[p] = t BY <3>2 DEF Sound
      <4> QED BY <3>2, <4>1 DEF IsExistBlock
    <3> QED BY <1>2, <2>1, <3>1, <3>2
  <2> QED BY <1>2, <1>4, <2>1 DEF Civil
<1> QED BY <1>2, <1>3, <1>4 DEF Quiet

LEMMA PlayerReadySound ==
    ASSUME NEW w, NEW X, NEW p \in Player, Sound(w, X), AtTable(w, p)
    PROVE  /\ Sound(PlayerReady(w, p), X)
           /\ Civil(w) => Civil(PlayerReady(w, p))
           /\ Quiet(w, PlayerReady(w, p))
           /\ PlayerReady(w, p).members \subseteq w.members
           /\ PlayerReady(w, p).made = w.made
<1>1. CASE w.table[p] \in w.playing
  <2>1. PlayerReady(w, p) = w BY <1>1 DEF PlayerReady
  <2> QED BY <2>1 DEF Quiet
<1>2. CASE w.table[p] \notin w.playing /\ ~CanEnterRoom(p)
  <2>1. CanLeaveTable(w, p) BY <1>2 DEF CanLeaveTable
  <2> DEFINE v == LeaveRoom(LeaveTable(w, p), p)
  <2>2. PlayerReady(w, p) = v BY <1>2 DEF PlayerReady
  <2>3. /\ Sound(v, X \ {p})
        /\ Civil(w) => Civil(v)
        /\ Quiet(w, v)
        /\ v.members \subseteq w.members
        /\ v.made = w.made
    BY <2>1, LeaveBothSound
  <2>4. Sound(v, X) BY <2>3 DEF Sound
  <2> QED BY <2>2, <2>3, <2>4
<1>3. CASE /\ w.table[p] \notin w.playing
           /\ CanEnterRoom(p)
           /\ IsExistBlock(w, p, w.table[p])
  <2>1. PlayerReady(w, p) = FastJoinTable(w, p) BY <1>3 DEF PlayerReady
  <2> QED BY <2>1, FastJoinSound
<1>4. CASE /\ w.table[p] \notin w.playing
           /\ CanEnterRoom(p)
           /\ ~IsExistBlock(w, p, w.table[p])
  <2>1. PlayerReady(w, p) = [w EXCEPT !.ready = @ \cup {p}]
    BY <1>4 DEF PlayerReady
  <2> QED BY <1>4, <2>1, BecomesReady
<1> QED BY <1>1, <1>2, <1>3, <1>4

(* What MarryTable does with a queued player it has found a table for.     *)
LEMMA TakeChairSound ==
    ASSUME NEW w, NEW p \in Player, NEW t \in Table,
           Sound(w, {}), Civil(w), Queued(w, p), CanEnterTable(w, p, t)
    PROVE  LET v == LeaveMarry(TakeChair(w, p, t), p)
           IN  /\ Sound(v, {}) /\ Civil(v) /\ Quiet(w, v)
               /\ v.members \subseteq w.members
               /\ v.made = w.made
<1> DEFINE u == [w EXCEPT !.seated[t] = @ \cup {p}, !.table[p] = t]
           x == TakeChair(w, p, t)
           v == LeaveMarry(x, p)
<1>1. w \in Room BY DEF Sound
<1>2. /\ u \in Room
      /\ u.members = w.members
      /\ u.playerNum = w.playerNum
      /\ u.queue = w.queue
      /\ u.playing = w.playing
      /\ u.made = w.made
      /\ u.ready = w.ready
      /\ u.table = [w.table EXCEPT ![p] = t]
      /\ u.seated = [w.seated EXCEPT ![t] = @ \cup {p}]
  BY <1>1 DEF Room
<1>3. x = PlayerReady(u, p) BY DEF TakeChair
<1> HIDE DEF u, x
<1>4. /\ u.table[p] = t
      /\ \A q \in Player \ {p} : u.table[q] = w.table[q]
      /\ u.seated[t] = w.seated[t] \cup {p}
      /\ \A s \in Table \ {t} : u.seated[s] = w.seated[s]
  BY <1>1, <1>2 DEF Room
<1>5. /\ w.table[p] = NoTable
      /\ p \in w.members
      /\ p \notin w.ready
      /\ t \notin w.playing
      /\ t # NoTable
      /\ ~IsExistIP(w, p, t)
      /\ ~IsExistBlock(w, p, t)
  BY TableFacts DEF CanEnterTable, Sound, AtTable
<1>6. AtTable(u, p) BY <1>4, <1>5 DEF AtTable
<1>7. Quiet(w, u)
  <2>1. w.playing \subseteq Table \ {t} BY <1>1, <1>5 DEF Room
  <2> QED BY <1>2, <1>4, <2>1 DEF Quiet
<1>8. Sound(u, {p})
  <2>1. \A q \in Player : \A s \in Table : q \in u.seated[s] <=> u.table[q] = s
    BY <1>4, <1>5, TableFacts DEF Sound
  <2>2. \A q \in Player :
           /\ AtTable(u, q) => q \in u.members /\ (q \in {p} \/ ~Queued(u, q))
           /\ Queued(u, q) => q \in u.members
           /\ q \in u.ready => AtTable(u, q)
    BY <1>2, <1>4, <1>5 DEF Sound, AtTable, Queued
  <2> QED BY <1>2, <2>1, <2>2 DEF Sound
<1>9. Civil(u)
  <2>1. ASSUME NEW s \in Table, NEW q \in u.seated[s], NEW r \in u.seated[s]
        PROVE  /\ q # r /\ Ip[q] = Ip[r] => Ip[q] = NoIp
               /\ q \in u.ready => ~Blocked(q, r)
    <3>1. CASE s # t
      BY <3>1, <1>2, <1>4, <2>1 DEF Civil
    <3>2. CASE s = t /\ q # p /\ r # p
      <4>1. q \in w.seated[t] /\ r \in w.seated[t] BY <3>2, <1>4, <2>1
      <4> QED BY <4>1, <1>2 DEF Civil
    <3>3. CASE s = t /\ q = p
      <4>1. r = p \/ r \in w.seated[t] BY <3>3, <1>4, <2>1
      <4> QED BY <4>1, <3>3, <1>2, <1>5 DEF IsExistIP
    <3>4. CASE s = t /\ q # p /\ r = p
      <4>1. q \in w.seated[t] BY <3>4, <1>4, <2>1
      <4>2. ~Blocked(p, q) BY <4>1, <1>5 DEF IsExistBlock
      <4>3. ~Blocked(q, r) BY <4>2, <3>4, BlockedSymmetric
      <4> QED BY <4>1, <4>3, <3>4, <1>5 DEF IsExistIP
    <3> QED BY <3>1, <3>2, <3>3, <3>4
  <2>2. \A s \in u.playing : Cardinality(u.seated[s]) = Chairs
    BY <1>7 DEF Civil, Quiet
  <2> QED BY <2>1, <2>2 DEF Civil
<1>10. /\ Sound(x, {p}) /\ Civil(x) /\ Quiet(u, x)
       /\ x.members \subseteq u.members
       /\ x.made = u.made
  BY <1>3, <1>6, <1>8, <1>9, PlayerReadySound
<1>11. /\ Sound(v, {p} \ {p}) /\ Civil(v) /\ Quiet(x, v)
       /\ v.members = x.members
       /\ v.made = x.made
  BY <1>10, LeaveMarrySound
<1>12. {p} \ {p} = {} OBVIOUS
<1> HIDE DEF v
<1>13. /\ Sound(v, {}) /\ Civil(v) /\ Quiet(w, v)
       /\ v.members \subseteq w.members
       /\ v.made = w.made
  BY <1>2, <1>7, <1>10, <1>11, <1>12 DEF Quiet
<1> QED BY <1>13 DEF v, x

LEMMA CheckReadyTimeOutSound ==
    ASSUME NEW w, NEW t \in Table, NEW late, late \subseteq w.seated[t],
           Sound(w, {}), Civil(w), t \notin w.playing
    PROVE  LET v == CheckReadyTimeOut(w, t, late)
           IN  /\ Sound(v, {}) /\ Civil(v) /\ Quiet(w, v)
               /\ v.members = w.members
               /\ v.made = w.made
               /\ v.seated[t] \subseteq w.seated[t]
<1> DEFINE v == CheckReadyTimeOut(w, t, late)
           table == [p \in Player |-> IF p \in late THEN NoTable ELSE w.table[p]]
           queue == [p \in Player |-> IF p \in late /\ ~Queued(w, p)
                                      THEN t ELSE w.queue[p]]
<1>1. w \in Room BY DEF Sound
<1>2. late \subseteq Player BY <1>1 DEF Room
<1>3. /\ table \in [Player -> Table \cup {NoTable}]
      /\ queue \in [Player -> Table \cup {NoTable, NotQueued}]
  BY <1>1 DEF Room
<1>4. v = [w EXCEPT !.seated[t] = @ \ late, !.ready = @ \ late,
                    !.table = table, !.queue = queue]
  BY DEF CheckReadyTimeOut
<1>5. /\ \A p \in late : table[p] = NoTable
      /\ \A p \in Player \ late : table[p] = w.table[p] /\ queue[p] = w.queue[p]
      /\ \A p \in Player : queue[p] # w.queue[p] => p \in late
  BY <1>2
<1> HIDE DEF v, table, queue
<1>6. /\ v \in Room
      /\ v.members = w.members
      /\ v.playerNum = w.playerNum
      /\ v.queue = queue
      /\ v.playing = w.playing
      /\ v.made = w.made
      /\ v.ready = w.ready \ late
      /\ v.table = table
      /\ v.seated = [w.seated EXCEPT ![t] = @ \ late]
  BY <1>1, <1>3, <1>4 DEF Room
<1>7. /\ v.seated[t] = w.seated[t] \ late
      /\ \A u \in Table \ {t} : v.seated[u] = w.seated[u]
  BY <1>1, <1>6 DEF Room
<1>8. Quiet(w, v)
  <2>1. w.playing \subseteq Table \ {t} BY <1>1 DEF Room
  <2> QED BY <2>1, <1>6, <1>7 DEF Quiet
<1>9. \A p \in late : w.table[p] = t
  BY <1>2 DEF Sound
<1>10. Sound(v, {})
  <2>1. \A p \in Player : \A u \in Table : p \in v.seated[u] <=> v.table[p] = u
    BY <1>5, <1>6, <1>7, <1>9, TableFacts DEF Sound
  <2>2. \A p \in late : p \in w.members
    BY <1>2, <1>9, TableFacts DEF Sound, AtTable
  <2>3. \A p \in Player :
           /\ AtTable(v, p) => p \in v.members /\ ~Queued(v, p)
           /\ Queued(v, p) => p \in v.members
           /\ p \in v.ready => AtTable(v, p)
    BY <1>5, <1>6, <2>2 DEF Sound, AtTable, Queued
  <2> QED BY <1>6, <2>1, <2>3 DEF Sound
<1>11. Civil(v)
  <2>1. \A u \in Table : v.seated[u] \subseteq w.seated[u]
    BY <1>7
  <2>2. \A u \in v.playing : Cardinality(v.seated[u]) = Chairs
    BY <1>8 DEF Quiet, Civil
  <2> QED BY <1>6, <2>1, <2>2 DEF Civil
<1>12. /\ Sound(v, {}) /\ Civil(v) /\ Quiet(w, v)
       /\ v.members = w.members
       /\ v.made = w.made
       /\ v.seated[t] \subseteq w.seated[t]
  BY <1>6, <1>7, <1>8, <1>10, <1>11
<1> QED BY <1>12 DEF v

LEMMA OnGameStartSound ==
    ASSUME NEW w, NEW t \in Table, Sound(w, {}), Civil(w),
           Cardinality(w.seated[t]) = Chairs
    PROVE  LET v == OnGameStart(w, t)
           IN  /\ Sound(v, {}) /\ Civil(v)
               /\ v.playing = w.playing \cup {t}
               /\ v.seated = w.seated
               /\ v.members = w.members
               /\ v.made = w.made
<1> DEFINE v == OnGameStart(w, t)
<1>1. w \in Room BY DEF Sound
<1>2. /\ v \in Room
      /\ v.members = w.members
      /\ v.playerNum = w.playerNum
      /\ v.queue = w.queue
      /\ v.playing = w.playing \cup {t}
      /\ v.made = w.made
      /\ v.ready = w.ready
      /\ v.table = w.table
      /\ v.seated = w.seated
  BY <1>1 DEF OnGameStart, Room
<1> HIDE DEF v
<1>3. Sound(v, {}) BY <1>2 DEF Sound, AtTable, Queued
<1>4. Civil(v) BY <1>2 DEF Civil
<1>5. /\ Sound(v, {}) /\ Civil(v)
      /\ v.playing = w.playing \cup {t}
      /\ v.seated = w.seated
      /\ v.members = w.members
      /\ v.made = w.made
  BY <1>2, <1>3, <1>4
<1> QED BY <1>5 DEF v

LEMMA ResetPlayerReadySound ==
    ASSUME NEW w, NEW t \in Table, Sound(w, {}), Civil(w)
    PROVE  LET v == ResetPlayerReady(w, t)
           IN  /\ Sound(v, {}) /\ Civil(v)
               /\ v.ready = w.ready \ w.seated[t]
               /\ v.playing = w.playing
               /\ v.seated = w.seated
               /\ v.members = w.members
               /\ v.made = w.made
<1> DEFINE v == ResetPlayerReady(w, t)
<1>1. w \in Room BY DEF Sound
<1>2. /\ v \in Room
      /\ v.members = w.members
      /\ v.playerNum = w.playerNum
      /\ v.queue = w.queue
      /\ v.playing = w.playing
      /\ v.made = w.made
      /\ v.ready = w.ready \ w.seated[t]
      /\ v.table = w.table
      /\ v.seated = w.seated
  BY <1>1 DEF ResetPlayerReady, Room
<1> HIDE DEF v
<1>3. Sound(v, {}) BY <1>2 DEF Sound, AtTable, Queued
<1>4. Civil(v) BY <1>2 DEF Civil
<1>5. /\ Sound(v, {}) /\ Civil(v)
      /\ v.ready = w.ready \ w.seated[t]
      /\ v.playing = w.playing
      /\ v.seated = w.seated
      /\ v.members = w.members
      /\ v.made = w.made
  BY <1>2, <1>3, <1>4
<1> QED BY <1>5 DEF v

LEMMA GameOverSound ==
    ASSUME NEW w, NEW t \in Table, Sound(w, {}),
           NEW v, v = [w EXCEPT !.playing = @ \ {t}]
    PROVE  /\ Sound(v, {})
           /\ v.playing = w.playing \ {t}
           /\ v.ready = w.ready
           /\ v.seated = w.seated
           /\ v.members = w.members
           /\ v.made = w.made
<1>1. w \in Room BY DEF Sound
<1>2. /\ v \in Room
      /\ v.members = w.members
      /\ v.playerNum = w.playerNum
      /\ v.queue = w.queue
      /\ v.playing = w.playing \ {t}
      /\ v.made = w.made
      /\ v.ready = w.ready
      /\ v.table = w.table
      /\ v.seated = w.seated
  BY <1>1 DEF Room
<1> QED BY <1>2 DEF Sound, AtTable, Queued

LEMMA ManyLeaveSound ==
    ASSUME NEW w, NEW t \in Table, Sound(w, {}), NEW rich,
           rich \subseteq w.seated[t], w.ready \cap w.seated[t] = {},
           NEW v, v = CheckPlayerScoreManyLeave(w, t, rich)
    PROVE  /\ Sound(v, {})
           /\ v.playing = w.playing
           /\ v.ready = w.ready
           /\ v.seated[t] = w.seated[t] \ rich
           /\ \A u \in Table \ {t} : v.seated[u] = w.seated[u]
           /\ v.members \subseteq w.members
           /\ v.made = w.made
<1> DEFINE table == [p \in Player |-> IF p \in rich THEN NoTable ELSE w.table[p]]
           queue == [p \in Player |-> IF p \in rich THEN NotQueued ELSE w.queue[p]]
           num == w.playerNum - Cardinality(rich)
           members == w.members \ rich
           seated == [w.seated EXCEPT ![t] = @ \ rich]
<1>1. w \in Room BY DEF Sound
<1>2. rich \subseteq Player BY <1>1 DEF Room
<1>3. \A p \in rich : w.table[p] = t BY <1>2 DEF Sound
<1>4. rich \subseteq w.members
  BY <1>2, <1>3, TableFacts DEF Sound, AtTable
<1>5. IsFiniteSet(w.members) /\ IsFiniteSet(members)
  BY <1>1, PlayerAssumption, FS_Subset DEF Room
<1>6. /\ num = Cardinality(members)
      /\ num \in Nat
  <2>1. Cardinality(members) = Cardinality(w.members) - Cardinality(w.members \cap rich)
    BY <1>5, FS_Difference
  <2>2. w.members \cap rich = rich BY <1>4
  <2>3. Cardinality(members) \in Nat BY <1>5, FS_CardinalityType
  <2> HIDE DEF members
  <2> QED BY <2>1, <2>2, <2>3 DEF Sound
<1>7. /\ table \in [Player -> Table \cup {NoTable}]
      /\ queue \in [Player -> Table \cup {NoTable, NotQueued}]
      /\ members \in SUBSET Player
      /\ seated \in [Table -> SUBSET Player]
  BY <1>1 DEF Room
<1>8. v = [w EXCEPT !.seated = seated, !.table = table, !.queue = queue,
                    !.members = members, !.playerNum = num]
  BY DEF CheckPlayerScoreManyLeave
<1>9. /\ \A p \in rich : table[p] = NoTable /\ queue[p] = NotQueued
      /\ \A p \in Player \ rich : table[p] = w.table[p] /\ queue[p] = w.queue[p]
  BY <1>2
<1>10. w.members \ rich = members OBVIOUS
<1> HIDE DEF table, queue, num, members, seated
<1>11. /\ v \in Room
       /\ v.members = members
       /\ v.playerNum = num
       /\ v.queue = queue
       /\ v.playing = w.playing
       /\ v.made = w.made
       /\ v.ready = w.ready
       /\ v.table = table
       /\ v.seated = seated
  <2>1. num \in Nat BY <1>6
  <2> QED BY <1>1, <2>1, <1>7, <1>8 DEF Room
<1>12. /\ v.seated[t] = w.seated[t] \ rich
       /\ \A u \in Table \ {t} : v.seated[u] = w.seated[u]
  BY <1>1, <1>11 DEF Room, seated
<1>13. \A p \in Player : \A u \in Table : p \in v.seated[u] <=> v.table[p] = u
  <2>1. ASSUME NEW p \in rich, NEW u \in Table
        PROVE  p \notin v.seated[u] /\ v.table[p] # u
    BY <1>2, <1>3, <1>9, <1>11, <1>12, <2>1, TableFacts DEF Sound
  <2>2. ASSUME NEW p \in Player \ rich, NEW u \in Table
        PROVE  p \in v.seated[u] <=> v.table[p] = u
    BY <1>9, <1>11, <1>12, <2>2 DEF Sound
  <2> QED BY <2>1, <2>2
<1>14. \A p \in Player :
         /\ AtTable(v, p) => p \in v.members /\ ~Queued(v, p)
         /\ Queued(v, p) => p \in v.members
         /\ p \in v.ready => AtTable(v, p)
  <2>1. ASSUME NEW p \in rich
        PROVE  ~AtTable(v, p) /\ ~Queued(v, p) /\ p \notin v.ready
    BY <1>9, <1>11, <2>1 DEF AtTable, Queued
  <2>2. ASSUME NEW p \in Player \ rich
        PROVE  /\ v.table[p] = w.table[p]
               /\ v.queue[p] = w.queue[p]
               /\ p \in v.ready <=> p \in w.ready
               /\ p \in v.members <=> p \in w.members
    BY <1>9, <1>10, <1>11, <2>2
  <2> QED BY <2>1, <2>2 DEF Sound, AtTable, Queued
<1>15. Sound(v, {})
  BY <1>6, <1>11, <1>13, <1>14 DEF Sound
<1> QED BY <1>10, <1>11, <1>12, <1>15

-----------------------------------------------------------------------------
(* The inductive invariant.                                                *)
IInv ==
    /\ TypeOK
    /\ Sound(room, {})
    /\ Civil(room)
    /\ \A p \in room.members : Here(p)

LEMMA MembershipFromIInv ==
    ASSUME IInv PROVE Membership
  BY DEF IInv, Sound, Membership

LEMMA InitIInv ==
    ASSUME Init PROVE IInv
<1> USE DEF Init
<1>1. room \in Room
  <2>1. TableNum \in Table \cup {0} BY TablesAssumption DEF Table
  <2> QED BY <2>1, TableFacts DEF Room
<1>2. TypeOK
  <2>1. 0 \in Score BY LimitAssumption DEF Score
  <2> QED BY <1>1, <2>1 DEF TypeOK, NetState
<1>3. Sound(room, {})
  <2>1. Cardinality({}) = 0 BY FS_EmptySet
  <2>2. \A p \in Player : ~AtTable(room, p) /\ ~Queued(room, p)
    BY DEF AtTable, Queued
  <2> QED BY <1>1, <2>1, <2>2, TableFacts DEF Sound
<1>4. Civil(room)
  BY DEF Civil
<1> QED BY <1>2, <1>3, <1>4 DEF IInv

LEMMA BlockedStable ==
    ASSUME NEW p, NEW q, blocks'[p] = blocks[p], blocks'[q] = blocks[q],
           ~Blocked(p, q)
    PROVE  ~Blocked(p, q)'
  BY DEF Blocked, BlockIps

LEMMA CivilStable ==
    ASSUME UNCHANGED blocks, Civil(room')
    PROVE  Civil(room)'
<1>1. \A p, q : Blocked(p, q) <=> Blocked(p, q)'
  BY DEF Blocked, BlockIps
<1> QED BY <1>1 DEF Civil

(* Who plays, told by the seats.                                           *)
LEMMA PlaysAtTable ==
    ASSUME NEW w, NEW X, Sound(w, X), NEW p \in Player
    PROVE  w.table[p] \in w.playing <=> \E t \in w.playing : p \in w.seated[t]
<1>1. w.playing \subseteq Table BY DEF Sound, Room
<1> QED BY <1>1 DEF Sound

Playing(w) == {p \in Player : w.table[p] \in w.playing}
Games(w) == {w.seated[t] : t \in w.playing}

LEMMA QuietGames ==
    ASSUME NEW w, NEW v, Sound(w, {}), Sound(v, {}), Quiet(w, v)
    PROVE  Playing(v) = Playing(w) /\ Games(v) = Games(w)
<1>1. Games(v) = Games(w) BY DEF Games, Quiet
<1>2. ASSUME NEW p \in Player
      PROVE  v.table[p] \in v.playing <=> w.table[p] \in w.playing
  BY PlaysAtTable DEF Quiet
<1> QED BY <1>1, <1>2 DEF Playing

(* The mapped state, in these terms.                                       *)
LEMMA Mapped ==
    /\ {p \in Player : Here(p) /\ room.table[p] \notin room.playing}
         = {p \in Player : Here(p) /\ p \notin Playing(room)}
    /\ {room.seated[t] : t \in room.playing} = Games(room)
    /\ {p \in Player : Here(p) /\ room.table[p] \notin room.playing}'
         = {p \in Player : Here(p)' /\ p \notin Playing(room')}
    /\ {room.seated[t] : t \in room.playing}' = Games(room')
  BY DEF Playing, Games

(* A handler that leaves every game and the blockers alone.                *)
LEMMA QuietStep ==
    ASSUME IInv, Sound(room', {}), Civil(room'), Quiet(room, room'),
           UNCHANGED blocks,
           netState' \in [Player -> NetState], score' \in [Player -> Score],
           marry' \in [on : BOOLEAN, fresh : Table \cup {NoTable}],
           repair' \in BOOLEAN,
           \A p \in room'.members : netState'[p] # "none"
    PROVE  /\ IInv'
           /\ Playing(room') = Playing(room)
           /\ Games(room') = Games(room)
<1>1. Civil(room)' BY CivilStable
<1>2. Sound(room, {})' BY DEF Sound, AtTable, Queued
<1>3. room' \in Room BY DEF Sound
<1>4. TypeOK' BY <1>3 DEF IInv, TypeOK
<1>5. IInv' BY <1>1, <1>2, <1>4 DEF IInv, Here
<1>6. Playing(room') = Playing(room) /\ Games(room') = Games(room)
  BY QuietGames DEF IInv
<1> QED BY <1>5, <1>6

(* ... and the players' objects: a stuttering step.                        *)
LEMMA StutteringStep ==
    ASSUME Playing(room') = Playing(room), Games(room') = Games(room),
           UNCHANGED blocks, \A p \in Player : Here(p)' <=> Here(p)
    PROVE  UNCHANGED Matches!vars
  BY Mapped DEF Matches!vars, Playing, Games

(* The refinement of one step, [Matches!Next]_Matches!vars.                *)
Refines == Matches!Next \/ UNCHANGED Matches!vars

LEMMA EnterSvrStep ==
    ASSUME IInv, NEW p \in Player, EnterSvr(p)
    PROVE  IInv' /\ Refines
<1> USE DEF EnterSvr
<1>1. /\ \A q \in Player \ {p} : Here(q)' <=> Here(q)
      /\ Here(p)' /\ ~Here(p)
      /\ netState' \in [Player -> NetState]
      /\ score' \in [Player -> Score]
  BY DEF IInv, TypeOK, Here, NetState
<1>2. \A q \in room'.members : netState'[q] # "none"
  <2>1. room.members \subseteq Player BY DEF IInv, Sound, Room
  <2> QED BY <1>1, <2>1 DEF IInv, Here
<1>3. Sound(room', {}) /\ Civil(room') /\ Quiet(room, room')
  BY DEF IInv, Quiet
<1>4. /\ IInv'
      /\ Playing(room') = Playing(room)
      /\ Games(room') = Games(room)
  BY <1>1, <1>2, <1>3, QuietStep DEF IInv, TypeOK
<1>5. \A t \in room.playing : p \notin room.seated[t]
  BY <1>1 DEF IInv, Sound, Room, AtTable, Table, NoTable
<1>6. p \notin Playing(room) /\ p \notin UNION Games(room)
  <2>1. p \notin Playing(room) BY <1>5, PlaysAtTable DEF Playing, IInv
  <2> QED BY <1>5, <2>1 DEF Games
<1>7. Matches!Come(p)
  <2>1. p \notin {q \in Player : Here(q) /\ q \notin Playing(room)} \cup UNION Games(room)
    BY <1>1, <1>6
  <2>2. {q \in Player : Here(q)' /\ q \notin Playing(room')}
          = {q \in Player : Here(q) /\ q \notin Playing(room)} \cup {p}
    BY <1>1, <1>4, <1>6 DEF Playing
  <2> QED BY <1>4, <2>1, <2>2, Mapped DEF Matches!Come
<1> QED BY <1>4, <1>7 DEF Refines, Matches!Next

(* The object of a player that is not playing is deleted.                  *)
LEMMA DeleteStep ==
    ASSUME IInv, NEW p \in Player, Here(p), CanBackLobby(p), Delete(p)
    PROVE  IInv' /\ Refines
<1> USE DEF Delete
<1>1. /\ \A q \in Player \ {p} : Here(q)' <=> Here(q)
      /\ ~Here(p)'
      /\ netState' \in [Player -> NetState]
      /\ score' \in [Player -> Score]
  <2>1. 0 \in Score BY LimitAssumption DEF Score
  <2> QED BY <2>1 DEF IInv, TypeOK, Here, NetState
<1>2. /\ Sound(room', {}) /\ Civil(room') /\ Quiet(room, room')
      /\ room'.members \subseteq room.members \ {p}
  <2>1. {} \ {p} = {} OBVIOUS
  <2>2. room' = LeaveRoom(LeaveTable(room, p), p) BY DEF OnLoginOut
  <2>3. CanLeaveTable(room, p) BY DEF CanBackLobby
  <2> DEFINE v == LeaveRoom(LeaveTable(room, p), p)
  <2>4. /\ Sound(v, {} \ {p})
        /\ Civil(room) => Civil(v)
        /\ Quiet(room, v)
        /\ v.members \subseteq room.members \ {p}
    BY <2>3, LeaveBothSound DEF IInv
  <2> QED BY <2>1, <2>2, <2>4 DEF IInv
<1>3. \A q \in room'.members : netState'[q] # "none"
  <2>1. room.members \subseteq Player BY DEF IInv, Sound, Room
  <2> QED BY <1>1, <1>2, <2>1 DEF IInv, Here
<1>4. /\ IInv'
      /\ Playing(room') = Playing(room)
      /\ Games(room') = Games(room)
  BY <1>1, <1>2, <1>3, QuietStep DEF IInv, TypeOK
<1>5. p \notin Playing(room)
  <2>1. room.playing \subseteq Table BY DEF IInv, Sound, Room
  <2> QED BY <2>1, TableFacts DEF CanBackLobby, CanLeaveTable, AtTable, Playing
<1>6. Matches!Go(p)
  <2>1. p \in {q \in Player : Here(q) /\ q \notin Playing(room)}
    BY <1>5
  <2>2. {q \in Player : Here(q)' /\ q \notin Playing(room')}
          = {q \in Player : Here(q) /\ q \notin Playing(room)} \ {p}
    BY <1>1, <1>4 DEF Playing
  <2> QED BY <1>4, <2>1, <2>2, Mapped DEF Matches!Go
<1> QED BY <1>4, <1>6 DEF Refines, Matches!Next

(* A handler that only moves the player within the room.                   *)
LEMMA RequestStep ==
    ASSUME IInv, NEW p \in Player, NEW w, RoomRequest(p, w),
           Sound(w, {}), Civil(w), Quiet(room, w),
           w.members \subseteq room.members \cup {p}
    PROVE  IInv' /\ Refines
<1> USE DEF RoomRequest
<1>1. \A q \in room'.members : netState'[q] # "none"
  BY DEF IInv, Here, Sends
<1>2. /\ IInv'
      /\ Playing(room') = Playing(room)
      /\ Games(room') = Games(room)
  BY <1>1, QuietStep DEF IInv, TypeOK
<1>3. UNCHANGED Matches!vars
  BY <1>2, StutteringStep DEF Here
<1> QED BY <1>2, <1>3 DEF Refines

LEMMA SetNetStateStep ==
    ASSUME IInv, NEW p \in Player, NEW s \in {"off", "idle"}, Here(p),
           SetNetStateOff(p, s)
    PROVE  IInv' /\ Refines
<1> USE DEF SetNetStateOff
<1>1. /\ \A q \in Player : Here(q)' <=> Here(q)
      /\ netState' \in [Player -> NetState]
  BY DEF IInv, TypeOK, Here, NetState
<1>2. /\ Sound(room', {}) /\ Civil(room') /\ Quiet(room, room')
      /\ room'.members \subseteq room.members
  <2>1. CASE AtTable(room, p) /\ CanLeaveTable(room, p)
    <3>1. {} \ {p} = {} OBVIOUS
    <3>2. room' = LeaveRoom(LeaveTable(room, p), p) BY <2>1
    <3> QED BY <3>1, <3>2, <2>1, LeaveBothSound DEF IInv
  <2>2. CASE ~(AtTable(room, p) /\ CanLeaveTable(room, p))
    BY <2>2 DEF IInv, Quiet
  <2> QED BY <2>1, <2>2
<1>3. \A q \in room'.members : netState'[q] # "none"
  <2>1. room.members \subseteq Player BY DEF IInv, Sound, Room
  <2> QED BY <1>1, <1>2, <2>1 DEF IInv, Here
<1>4. /\ IInv'
      /\ Playing(room') = Playing(room)
      /\ Games(room') = Games(room)
  BY <1>1, <1>2, <1>3, QuietStep DEF IInv, TypeOK
<1>5. UNCHANGED Matches!vars
  BY <1>1, <1>4, StutteringStep
<1> QED BY <1>4, <1>5 DEF Refines

(* The actions that leave the room as it is.                               *)
LEMMA OtherStep ==
    ASSUME IInv, UNCHANGED <<room, blocks>>,
           netState' \in [Player -> NetState], score' \in [Player -> Score],
           marry' \in [on : BOOLEAN, fresh : Table \cup {NoTable}],
           repair' \in BOOLEAN, \A p \in Player : Here(p)' <=> Here(p)
    PROVE  IInv' /\ Refines
<1>1. \A q \in room'.members : netState'[q] # "none"
  <2>1. room.members \subseteq Player BY DEF IInv, Sound, Room
  <2> QED BY <2>1 DEF IInv, Here
<1>2. Sound(room', {}) /\ Civil(room') /\ Quiet(room, room')
  BY DEF IInv, Quiet
<1>3. /\ IInv'
      /\ Playing(room') = Playing(room)
      /\ Games(room') = Games(room)
  BY <1>1, <1>2, QuietStep
<1>4. UNCHANGED Matches!vars
  BY <1>3, StutteringStep
<1> QED BY <1>3, <1>4 DEF Refines

LEMMA SameCardinality == \A S : Matches!Cardinality(S) = Cardinality(S)
  BY DEF Matches!Cardinality, Cardinality

LEMMA TableTickStep ==
    ASSUME IInv, NEW t \in Table, TableTick(t)
    PROVE  IInv' /\ Refines
<1>1. PICK late \in SUBSET (room.seated[t] \cap room.ready) :
        room' = IF IsAllReady(CheckReadyTimeOut(room, t, late), t)
                THEN OnGameStart(CheckReadyTimeOut(room, t, late), t)
                ELSE CheckReadyTimeOut(room, t, late)
  BY DEF TableTick
<1> DEFINE w == CheckReadyTimeOut(room, t, late)
<1>2. /\ t \notin room.playing
      /\ UNCHANGED <<netState, score, blocks, marry, repair>>
  BY DEF TableTick
<1>3. /\ Sound(w, {}) /\ Civil(w) /\ Quiet(room, w)
      /\ w.members = room.members
      /\ w.seated[t] \subseteq room.seated[t]
  BY <1>1, <1>2, CheckReadyTimeOutSound DEF IInv
<1>4. /\ IsAllReady(w, t) => room' = OnGameStart(w, t)
      /\ ~IsAllReady(w, t) => room' = w
  BY <1>1
<1> HIDE DEF w
<1>5. CASE ~IsAllReady(w, t)
  <2>1. \A q \in room'.members : netState'[q] # "none"
    BY <1>2, <1>3, <1>4, <1>5 DEF IInv, Here
  <2>2. /\ IInv'
        /\ Playing(room') = Playing(room)
        /\ Games(room') = Games(room)
    BY <1>2, <1>3, <1>4, <1>5, <2>1, QuietStep DEF IInv, TypeOK
  <2>3. UNCHANGED Matches!vars
    BY <1>2, <2>2, StutteringStep DEF Here
  <2> QED BY <2>2, <2>3 DEF Refines
<1>6. CASE IsAllReady(w, t)
  <2> DEFINE v == OnGameStart(w, t)
  <2>0. PICK seats : seats = w.seated[t] OBVIOUS
  <2>1. /\ room' = v
        /\ Cardinality(seats) = Chairs
        /\ seats \subseteq w.ready
    BY <1>4, <1>6, <2>0 DEF IsAllReady
  <2>2. /\ Sound(v, {}) /\ Civil(v)
        /\ v.playing = w.playing \cup {t}
        /\ v.seated = w.seated
        /\ v.members = w.members
    BY <1>3, <2>0, <2>1, OnGameStartSound
  <2>3. IInv'
    <3>1. Civil(room)' BY <1>2, <2>1, <2>2, CivilStable
    <3>2. Sound(room, {})' BY <2>1, <2>2 DEF Sound, AtTable, Queued
    <3>3. room' \in Room BY <2>1, <2>2 DEF Sound
    <3>4. TypeOK' BY <1>2, <3>3 DEF IInv, TypeOK
    <3>5. (\A p \in room.members : Here(p))'
      BY <1>2, <1>3, <2>1, <2>2 DEF IInv, Here
    <3> QED BY <3>1, <3>2, <3>4, <3>5 DEF IInv
  <2>4. seats \in SUBSET Player
    BY <1>3, <2>0 DEF Sound, Room
  <2>5. Matches!Start(seats)
    <3>1. \A p \in seats : Here(p) /\ p \notin Playing(room)
      <4>1. \A p \in seats : room.table[p] = t
        BY <1>3, <2>0, <2>4 DEF IInv, Sound
      <4>2. \A p \in seats : p \in room.members
        BY <4>1, <2>4, TableFacts DEF IInv, Sound, AtTable
      <4> QED BY <1>2, <4>1, <4>2 DEF IInv, Playing
    <3>2. ASSUME NEW p \in seats, NEW q \in seats, p # q
          PROVE  Matches!MayMeet(p, q)
      <4>1. /\ Ip[p] = Ip[q] => Ip[p] = NoIp
            /\ ~Blocked(p, q)
        BY <1>3, <2>0, <2>1, <3>2 DEF Civil
      <4> QED BY <3>2, <4>1
            DEF Blocked, BlockIps, Matches!MayMeet, Matches!AvoidedIps
    <3>3. Playing(room') = Playing(room) \cup seats
      <4>1. Playing(w) = Playing(room) BY <1>3, QuietGames DEF IInv
      <4>2. ASSUME NEW p \in Player
            PROVE  v.table[p] \in v.playing <=>
                     w.table[p] \in w.playing \/ p \in seats
        BY <1>3, <2>0, <2>2, PlaysAtTable
      <4> QED BY <2>1, <2>4, <4>1, <4>2 DEF Playing
    <3>4. Games(room') = Games(room) \cup {seats}
      <4>1. Games(w) = Games(room) BY <1>3, QuietGames DEF IInv
      <4>2. Games(v) = Games(w) \cup {seats}
        BY <2>0, <2>2 DEF Games
      <4> QED BY <2>1, <4>1, <4>2
    <3>5. {p \in Player : Here(p)' /\ p \notin Playing(room')}
            = {p \in Player : Here(p) /\ p \notin Playing(room)} \ seats
      BY <1>2, <3>3 DEF Here
    <3>6. seats \subseteq {p \in Player : Here(p) /\ p \notin Playing(room)}
      BY <2>4, <3>1
    <3>7. blocks' = blocks BY <1>2
    <3>8. \A p, q \in seats : p # q => Matches!MayMeet(p, q)
      BY <3>2
    <3>9. Cardinality(seats) = Chairs
      BY <2>1
    <3> DEFINE idle == {p \in Player : Here(p) /\ room.table[p] \notin room.playing}
               games == {room.seated[u] : u \in room.playing}
    <3>10. seats \subseteq idle
      BY <3>6, Mapped
    <3>11. idle' = idle \ seats
      BY <3>5, Mapped
    <3>12. games' = games \cup {seats}
      BY <3>4, Mapped
    <3> QED BY <3>7, <3>8, <3>9, <3>10, <3>11, <3>12, SameCardinality DEF Matches!Start
  <2>6. Matches!Next
    BY <2>4, <2>5 DEF Matches!Next
  <2> QED BY <2>3, <2>6 DEF Refines
<1> QED BY <1>5, <1>6

LEMMA ReGameStartStep ==
    ASSUME IInv, NEW t \in Table, ReGameStart(t)
    PROVE  IInv' /\ Refines
<1> DEFINE w == ResetPlayerReady(room, t)
           v == OnGameStart(w, t)
<1>1. /\ t \in room.playing
      /\ room' = v
      /\ UNCHANGED <<netState, score, blocks, marry, repair>>
  BY DEF ReGameStart
<1>2. /\ Sound(w, {}) /\ Civil(w)
      /\ w.playing = room.playing
      /\ w.seated = room.seated
      /\ w.members = room.members
  BY ResetPlayerReadySound DEF IInv
<1>3. Cardinality(w.seated[t]) = Chairs
  BY <1>1, <1>2 DEF Civil
<1> HIDE DEF w
<1>4. /\ Sound(v, {}) /\ Civil(v)
      /\ v.playing = w.playing \cup {t}
      /\ v.seated = w.seated
      /\ v.members = w.members
  BY <1>2, <1>3, OnGameStartSound
<1> HIDE DEF v
<1>5. Quiet(room, v)
  BY <1>1, <1>2, <1>4 DEF Quiet
<1>6. \A q \in room'.members : netState'[q] # "none"
  BY <1>1, <1>2, <1>4 DEF IInv, Here
<1>7. /\ IInv'
      /\ Playing(room') = Playing(room)
      /\ Games(room') = Games(room)
  BY <1>1, <1>4, <1>5, <1>6, QuietStep DEF IInv, TypeOK
<1>8. UNCHANGED Matches!vars
  BY <1>1, <1>7, StutteringStep DEF Here
<1> QED BY <1>7, <1>8 DEF Refines

LEMMA OnGameEndStep ==
    ASSUME IInv, NEW t \in Table, OnGameEnd(t)
    PROVE  IInv' /\ Refines
<1> DEFINE seats0 == room.seated[t]
           rich0(s) == {p \in room.seated[t] : s[p] >= EnterMax}
           w == ResetPlayerReady(room, t)
           n == [w EXCEPT !.playing = @ \ {t}]
<1>0. PICK seats : seats = room.seated[t] OBVIOUS
<1>1. PICK s \in [room.seated[t] -> Score] :
        /\ score' = [p \in Player |->
                       IF p \in room.seated[t] THEN s[p] ELSE score[p]]
        /\ room' = CheckPlayerScoreManyLeave(n, t, rich0(s))
  BY DEF OnGameEnd
<1>2. /\ t \in room.playing
      /\ blocks' = AddBlockers(seats)
      /\ UNCHANGED <<netState, marry, repair>>
  BY <1>0 DEF OnGameEnd
<1>3. PICK rich : rich = rich0(s) OBVIOUS
<1>4. rich \subseteq room.seated[t] BY <1>3
<1>5. room' = CheckPlayerScoreManyLeave(n, t, rich) BY <1>1, <1>3
<1>6. /\ Sound(w, {})
      /\ w.ready = room.ready \ room.seated[t]
      /\ w.playing = room.playing
      /\ w.seated = room.seated
      /\ w.members = room.members
  BY ResetPlayerReadySound DEF IInv
<1> HIDE DEF w, rich0, seats0
<1>7. /\ Sound(n, {})
      /\ n.playing = w.playing \ {t}
      /\ n.ready = w.ready
      /\ n.seated = w.seated
      /\ n.members = w.members
  BY <1>6, GameOverSound
<1> HIDE DEF n
<1>8. PICK v : v = room' OBVIOUS
<1>9. /\ Sound(v, {})
      /\ v.playing = room.playing \ {t}
      /\ v.ready = room.ready \ seats
      /\ v.seated[t] = seats \ rich
      /\ \A u \in Table \ {t} : v.seated[u] = room.seated[u]
      /\ v.members \subseteq room.members
  <2>1. rich \subseteq n.seated[t] /\ n.ready \cap n.seated[t] = {}
    BY <1>4, <1>6, <1>7
  <2>2. /\ Sound(v, {})
        /\ v.playing = n.playing
        /\ v.ready = n.ready
        /\ v.seated[t] = n.seated[t] \ rich
        /\ \A u \in Table \ {t} : v.seated[u] = n.seated[u]
        /\ v.members \subseteq n.members
    BY <1>5, <1>7, <1>8, <2>1, ManyLeaveSound
  <2> QED BY <1>0, <1>6, <1>7, <2>2
<1>10. seats \in SUBSET Player
  BY <1>0 DEF IInv, Sound, Room
<1>11. \A p \in Player \ seats : blocks'[p] = blocks[p]
  BY <1>2 DEF AddBlockers
<1>12. ASSUME NEW u \in Table \ {t}, NEW p \in room.seated[u]
       PROVE  p \in Player \ seats
  BY <1>0, <1>12 DEF IInv, Sound, Room
<1>13. Civil(room)'
  <2>1. \A u \in Table : v.seated[u] \subseteq room.seated[u]
    BY <1>0, <1>9
  <2>2. ASSUME NEW u \in Table, NEW p \in v.seated[u], NEW q \in v.seated[u],
               p \in v.ready
        PROVE  ~Blocked(p, q)'
    <3>1. u # t BY <1>9, <2>2
    <3>2. p \in room.seated[u] /\ q \in room.seated[u] /\ p \in room.ready
      BY <1>9, <2>2, <3>1
    <3>3. blocks'[p] = blocks[p] /\ blocks'[q] = blocks[q]
      BY <1>11, <1>12, <3>1, <3>2
    <3>4. ~Blocked(p, q) BY <3>2 DEF IInv, Civil
    <3> QED BY <3>3, <3>4, BlockedStable
  <2>3. ASSUME NEW u \in Table, NEW p \in v.seated[u], NEW q \in v.seated[u]
        PROVE  p # q /\ Ip[p] = Ip[q] => Ip[p] = NoIp
    BY <2>1, <2>3 DEF IInv, Civil
  <2>4. \A u \in v.playing : Cardinality(v.seated[u]) = Chairs
    <3>1. room.playing \subseteq Table BY DEF IInv, Sound, Room
    <3> QED BY <1>9, <3>1 DEF IInv, Civil
  <2> QED BY <1>8, <2>2, <2>3, <2>4 DEF Civil
<1>14. IInv'
  <2>1. score' \in [Player -> Score]
    BY <1>1 DEF IInv, TypeOK
  <2>2. blocks' \in [Player -> SUBSET Player]
    BY <1>2, <1>10 DEF IInv, TypeOK, AddBlockers
  <2>3. room' \in Room BY <1>8, <1>9 DEF Sound
  <2>4. TypeOK' BY <1>2, <2>1, <2>2, <2>3 DEF IInv, TypeOK
  <2>5. Sound(room, {})' BY <1>8, <1>9 DEF Sound, AtTable, Queued
  <2>6. (\A p \in room.members : Here(p))'
    BY <1>2, <1>8, <1>9 DEF IInv, Here
  <2> QED BY <1>13, <2>4, <2>5, <2>6 DEF IInv
<1>15. Matches!End(seats)
  <2>1. room.playing \subseteq Table BY DEF IInv, Sound, Room
  <2>2. seats \in Games(room) BY <1>0, <1>2 DEF Games
  <2>3. \A u \in room.playing \ {t} : room.seated[u] # seats
    <3>1. seats # {}
      BY <1>0, <1>2, ChairsAssumption, FS_EmptySet DEF IInv, Civil
    <3> QED BY <1>12, <2>1, <3>1
  <2>4. Games(room') = Games(room) \ {seats}
    BY <1>0, <1>2, <1>8, <1>9, <2>1, <2>3 DEF Games
  <2>5. Playing(room') = Playing(room) \ seats
    <3>1. ASSUME NEW p \in Player
          PROVE  v.table[p] \in v.playing <=>
                   room.table[p] \in room.playing /\ p \notin seats
      <4>1. v.table[p] \in v.playing <=> \E u \in v.playing : p \in v.seated[u]
        BY <1>9, PlaysAtTable
      <4>2. room.table[p] \in room.playing <=>
              \E u \in room.playing : p \in room.seated[u]
        BY PlaysAtTable DEF IInv
      <4> QED BY <1>0, <1>2, <1>9, <1>12, <2>1, <4>1, <4>2
    <3> QED BY <1>8, <3>1 DEF Playing
  <2>6. \A p \in seats : Here(p)
    <3>1. \A p \in seats : room.table[p] = t
      BY <1>0, <1>10 DEF IInv, Sound
    <3> QED BY <1>10, <3>1, TableFacts DEF IInv, Sound, AtTable
  <2>7. {p \in Player : Here(p)' /\ p \notin Playing(room')}
          = {p \in Player : Here(p) /\ p \notin Playing(room)} \cup seats
    BY <1>2, <1>10, <2>5, <2>6 DEF Here
  <2>8. blocks' = [p \in Player |-> IF IsAddBlockers /\ p \in seats
                                    THEN seats \ {p} ELSE blocks[p]]
    BY <1>2 DEF AddBlockers
  <2> QED BY <2>2, <2>4, <2>7, <2>8, Mapped DEF Matches!End
<1>16. Matches!Next
  BY <1>10, <1>15 DEF Matches!Next
<1> QED BY <1>14, <1>16 DEF Refines

LEMMA MallocTableSound ==
    ASSUME NEW w, Sound(w, {}), Civil(w), w.made < MaxTables
    PROVE  /\ Sound(MallocTable(w), {})
           /\ Civil(MallocTable(w))
           /\ Quiet(w, MallocTable(w))
           /\ MallocTable(w).members = w.members
           /\ MallocTable(w).queue = w.queue
           /\ w.made + 1 \in Table
<1> DEFINE v == MallocTable(w)
           made == w.made + 1
<1>1. w \in Room BY DEF Sound
<1>2. made \in Table BY <1>1, TablesAssumption DEF Room, Table
<1>3. v = [w EXCEPT !.made = made] BY DEF MallocTable
<1> HIDE DEF v, made
<1>4. /\ v \in Room
      /\ v.members = w.members
      /\ v.playerNum = w.playerNum
      /\ v.queue = w.queue
      /\ v.playing = w.playing
      /\ v.ready = w.ready
      /\ v.table = w.table
      /\ v.seated = w.seated
  BY <1>1, <1>2, <1>3 DEF Room
<1>5. Sound(v, {}) /\ Civil(v) /\ Quiet(w, v)
  BY <1>4 DEF Sound, Civil, Quiet, AtTable, Queued
<1> QED BY <1>2, <1>4, <1>5 DEF v, made

LEMMA SitAloneSound ==
    ASSUME NEW w, NEW p \in Player, NEW t \in Table,
           Sound(w, {}), Civil(w), Queued(w, p), SitAlone(w, p, t)
    PROVE  /\ Sound(room', {}) /\ Civil(room') /\ Quiet(w, room')
           /\ room'.members \subseteq w.members
<1>1. CASE CanEnterTable(w, p, t)
  <2> DEFINE v == LeaveMarry(TakeChair(w, p, t), p)
  <2>1. room' = v BY <1>1 DEF SitAlone
  <2> QED BY <1>1, <2>1, TakeChairSound
<1>2. CASE ~CanEnterTable(w, p, t)
  <2>1. room' = LeaveRoom(w, p) BY <1>2 DEF SitAlone
  <2> QED BY <2>1, LeaveRoomSound
<1> QED BY <1>1, <1>2

LEMMA MarryNextStep ==
    ASSUME IInv, NEW p \in Player, MarryNext(p)
    PROVE  IInv' /\ Refines
<1>1. /\ Queued(room, p)
      /\ UNCHANGED <<netState, score, blocks, repair>>
  BY DEF MarryNext
<1>2. /\ Sound(room', {}) /\ Civil(room') /\ Quiet(room, room')
      /\ room'.members \subseteq room.members
      /\ marry' \in [on : BOOLEAN, fresh : Table \cup {NoTable}]
  <2>1. CASE JoinNoFullTable(p)
    <3>1. PICK t \in ReadyTables(room, p) :
            room' = LeaveMarry(TakeChair(room, p, t), p)
      BY <2>1 DEF JoinNoFullTable
    <3>2. t \in Table /\ CanEnterTable(room, p, t)
      BY <3>1, TablesAssumption DEF ReadyTables, IInv, Sound, Room, Table
    <3> DEFINE v == LeaveMarry(TakeChair(room, p, t), p)
    <3>3. /\ Sound(v, {}) /\ Civil(v) /\ Quiet(room, v)
          /\ v.members \subseteq room.members
      BY <1>1, <3>2, TakeChairSound DEF IInv
    <3>4. marry' = marry BY <2>1 DEF JoinNoFullTable
    <3> QED BY <3>1, <3>3, <3>4 DEF IInv, TypeOK
  <2>2. CASE /\ NeedTable
             /\ room.made < MaxTables
             /\ SitAlone(MallocTable(room), p, room.made + 1)
             /\ marry' = [marry EXCEPT !.fresh = room.made + 1]
    <3> DEFINE w == MallocTable(room)
    <3>1. /\ Sound(w, {}) /\ Civil(w) /\ Quiet(room, w)
          /\ w.members = room.members
          /\ w.queue = room.queue
          /\ room.made + 1 \in Table
      BY <2>2, MallocTableSound DEF IInv
    <3>2. Queued(w, p) BY <1>1, <3>1 DEF Queued
    <3>3. marry' \in [on : BOOLEAN, fresh : Table \cup {NoTable}]
      BY <2>2, <3>1 DEF IInv, TypeOK
    <3>4. /\ Sound(room', {}) /\ Civil(room') /\ Quiet(w, room')
          /\ room'.members \subseteq w.members
      BY <2>2, <3>1, <3>2, SitAloneSound
    <3> HIDE DEF w
    <3> QED BY <3>1, <3>3, <3>4 DEF Quiet
  <2>3. CASE ~NeedTable /\ SitAlone(room, p, marry.fresh) /\ UNCHANGED marry
    <3>1. marry.fresh \in Table
      BY <2>3 DEF NeedTable, IInv, TypeOK
    <3> QED BY <1>1, <2>3, <3>1, SitAloneSound DEF IInv, TypeOK
  <2> QED BY <2>1, <2>2, <2>3 DEF MarryNext, JoinFreshTable
<1>3. \A q \in room'.members : netState'[q] # "none"
  BY <1>1, <1>2 DEF IInv, Here
<1>4. /\ IInv'
      /\ Playing(room') = Playing(room)
      /\ Games(room') = Games(room)
  BY <1>1, <1>2, <1>3, QuietStep DEF IInv, TypeOK
<1>5. UNCHANGED Matches!vars
  BY <1>1, <1>4, StutteringStep DEF Here
<1> QED BY <1>4, <1>5 DEF Refines

(* What the clients ask for.                                               *)
LEMMA RequestsStep ==
    ASSUME IInv, NEW p \in Player,
           \/ EnterThisRoom(p) \/ EnterOtherRoom(p) \/ FastJoinRoom(p)
           \/ ChangeTable(p) \/ EnterTable(p) \/ LeaveTableReq(p) \/ TableReady(p)
    PROVE  IInv' /\ Refines
<1> SUFFICES \E w : /\ RoomRequest(p, w)
                    /\ Sound(w, {}) /\ Civil(w) /\ Quiet(room, w)
                    /\ w.members \subseteq room.members \cup {p}
  BY RequestStep
<1>0. /\ Sound(room, {}) /\ Civil(room) /\ Quiet(room, room)
      /\ {} \ {p} = {}
  BY DEF IInv, Quiet
<1>1. CASE EnterThisRoom(p)
  <2>1. RoomRequest(p, EnterRoom(room, p)) BY <1>1 DEF EnterThisRoom
  <2> DEFINE v == EnterRoom(room, p)
  <2>2. /\ Sound(v, {}) /\ Civil(v) /\ Quiet(room, v)
        /\ v.members = room.members \cup {p}
    BY <1>0, EnterRoomSound
  <2>3. RoomRequest(p, v) BY <2>1
  <2> HIDE DEF v
  <2> QED BY <2>2, <2>3
<1>2. CASE EnterOtherRoom(p)
  <2>1. RoomRequest(p, LeaveRoom(room, p)) BY <1>2 DEF EnterOtherRoom
  <2>2. LeaveRoom(room, p).members \subseteq room.members \cup {p}
    BY <1>0, LeaveRoomSound
  <2> QED BY <1>0, <2>1, <2>2, LeaveRoomSound
<1>3. CASE FastJoinRoom(p)
  <2> DEFINE u == LeaveRoom(room, p)
             v == EnterRoom(u, p)
             w == FastJoinTable(v, p)
  <2>1. RoomRequest(p, IF CanEnterRoom(p) THEN w ELSE u)
    BY <1>3 DEF FastJoinRoom
  <2>2. /\ Sound(u, {}) /\ Civil(u) /\ Quiet(room, u)
        /\ u.members \subseteq room.members
    BY <1>0, LeaveRoomSound
  <2> HIDE DEF u
  <2>3. /\ Sound(v, {}) /\ Civil(v) /\ Quiet(u, v)
        /\ v.members = u.members \cup {p}
    BY <2>2, EnterRoomSound
  <2> HIDE DEF v
  <2>4. /\ Sound(w, {}) /\ Civil(w) /\ Quiet(v, w)
        /\ w.members = v.members
    BY <2>3, FastJoinSound
  <2> HIDE DEF w
  <2>5. /\ Quiet(room, w)
        /\ w.members \subseteq room.members \cup {p}
        /\ u.members \subseteq room.members \cup {p}
    BY <2>2, <2>3, <2>4 DEF Quiet
  <2>6. CASE CanEnterRoom(p)
    <3>1. RoomRequest(p, w) BY <2>1, <2>6
    <3> QED BY <2>4, <2>5, <3>1
  <2>7. CASE ~CanEnterRoom(p)
    <3>1. RoomRequest(p, u) BY <2>1, <2>7
    <3> QED BY <2>2, <2>5, <3>1
  <2> QED BY <2>6, <2>7
<1>4. CASE ChangeTable(p)
  <2>1. RoomRequest(p, FastJoinTable(room, p)) BY <1>4 DEF ChangeTable
  <2>2. FastJoinTable(room, p).members \subseteq room.members \cup {p}
    BY <1>0, FastJoinSound
  <2> QED BY <1>0, <2>1, <2>2, FastJoinSound
<1>5. CASE EnterTable(p)
  <2> DEFINE u == LeaveTable(room, p)
             v == JoinMarry(u, p, NoTable)
  <2>1. /\ RoomRequest(p, v)
        /\ p \in room.members
        /\ CanLeaveTable(room, p)
    BY <1>5 DEF EnterTable
  <2>2. /\ Sound(u, {}) /\ Civil(u) /\ Quiet(room, u)
        /\ u.members = room.members
        /\ ~AtTable(u, p)
    BY <1>0, <2>1, LeaveTableSound DEF AtTable
  <2> HIDE DEF u
  <2>3. /\ Sound(v, {}) /\ Civil(v) /\ Quiet(u, v)
        /\ v.members = u.members
    BY <2>1, <2>2, JoinMarrySound
  <2> HIDE DEF v
  <2>4. Quiet(room, v) /\ v.members \subseteq room.members \cup {p}
    BY <2>2, <2>3 DEF Quiet
  <2> QED BY <2>1, <2>3, <2>4
<1>6. CASE LeaveTableReq(p)
  <2> DEFINE v == LeaveRoom(LeaveTable(room, p), p)
  <2>1. RoomRequest(p, v) /\ CanLeaveTable(room, p)
    BY <1>6 DEF LeaveTableReq
  <2>2. /\ Sound(v, {} \ {p}) /\ Civil(v) /\ Quiet(room, v)
        /\ v.members \subseteq room.members \ {p}
    BY <1>0, <2>1, LeaveBothSound
  <2> HIDE DEF v
  <2>3. v.members \subseteq room.members \cup {p} BY <2>2
  <2> QED BY <1>0, <2>1, <2>2, <2>3
<1>7. CASE TableReady(p)
  <2> DEFINE v == PlayerReady(room, p)
  <2>1. RoomRequest(p, v) /\ AtTable(room, p)
    BY <1>7 DEF TableReady
  <2>2. /\ Sound(v, {}) /\ Civil(v) /\ Quiet(room, v)
        /\ v.members \subseteq room.members
    BY <1>0, <2>1, PlayerReadySound
  <2> HIDE DEF v
  <2>3. v.members \subseteq room.members \cup {p} BY <2>2
  <2> QED BY <1>0, <2>1, <2>2, <2>3
<1> QED BY <1>1, <1>2, <1>3, <1>4, <1>5, <1>6, <1>7

(* Every step keeps the invariant and is a step of MatchMaking or none.    *)
LEMMA NextStep ==
    ASSUME IInv, [Next]_vars
    PROVE  IInv' /\ Refines
<1>0. /\ netState \in [Player -> NetState]
      /\ score \in [Player -> Score]
      /\ marry \in [on : BOOLEAN, fresh : Table \cup {NoTable}]
      /\ repair \in BOOLEAN
  BY DEF IInv, TypeOK
<1>1. ASSUME NEW p \in Player, EnterSvr(p) PROVE IInv' /\ Refines
  BY <1>1, EnterSvrStep
<1>2. ASSUME NEW p \in Player, Reconnect(p) PROVE IInv' /\ Refines
  <2>1. /\ netState' \in [Player -> NetState]
        /\ \A q \in Player : Here(q)' <=> Here(q)
        /\ UNCHANGED <<room, score, blocks, marry, repair>>
    BY <1>0, <1>2 DEF Reconnect, Here, NetState
  <2> QED BY <1>0, <2>1, OtherStep
<1>3. ASSUME NEW p \in Player, ClientGone(p) PROVE IInv' /\ Refines
  BY <1>3, SetNetStateStep DEF ClientGone
<1>4. ASSUME NEW p \in Player, HeartTimeout(p) PROVE IInv' /\ Refines
  BY <1>4, SetNetStateStep DEF HeartTimeout, Here
<1>5. ASSUME NEW p \in Player, BackLobby(p) PROVE IInv' /\ Refines
  BY <1>5, DeleteStep DEF BackLobby, Sends, Here
<1>6. ASSUME NEW p \in Player, CheckRecoverPlayer(p) PROVE IInv' /\ Refines
  BY <1>6, DeleteStep DEF CheckRecoverPlayer, NeedRecover
<1>7. ASSUME NEW p \in Player, AccountChanges(p) PROVE IInv' /\ Refines
  <2>1. /\ score' \in [Player -> Score]
        /\ UNCHANGED <<room, netState, blocks, marry, repair>>
    BY <1>0, <1>7 DEF AccountChanges
  <2> QED BY <1>0, <2>1, OtherStep DEF Here
<1>8. ASSUME NEW t \in Table, TableTick(t) PROVE IInv' /\ Refines
  BY <1>8, TableTickStep
<1>9. ASSUME NEW t \in Table, ReGameStart(t) PROVE IInv' /\ Refines
  BY <1>9, ReGameStartStep
<1>10. ASSUME NEW t \in Table, OnGameEnd(t) PROVE IInv' /\ Refines
  BY <1>10, OnGameEndStep
<1>11. ASSUME BeginMarry \/ EndMarry PROVE IInv' /\ Refines
  <2>1. marry' \in [on : BOOLEAN, fresh : Table \cup {NoTable}]
    <3>1. \A b \in BOOLEAN : [on |-> b, fresh |-> NoTable]
                              \in [on : BOOLEAN, fresh : Table \cup {NoTable}]
      OBVIOUS
    <3>2. \E b \in BOOLEAN : marry' = [on |-> b, fresh |-> NoTable]
      BY <1>11 DEF BeginMarry, EndMarry
    <3> QED BY <3>1, <3>2
  <2>2. UNCHANGED <<room, netState, score, blocks, repair>>
    BY <1>11 DEF BeginMarry, EndMarry
  <2> QED BY <1>0, <2>1, <2>2, OtherStep DEF Here
<1>12. ASSUME NEW p \in Player, MarryNext(p) PROVE IInv' /\ Refines
  BY <1>12, MarryNextStep
<1>13. ASSUME NotifyStopServer PROVE IInv' /\ Refines
  <2>1. repair' \in BOOLEAN /\ UNCHANGED <<room, netState, score, blocks, marry>>
    BY <1>13 DEF NotifyStopServer
  <2> QED BY <1>0, <2>1, OtherStep DEF Here
<1>14. ASSUME UNCHANGED vars PROVE IInv' /\ Refines
  BY <1>0, <1>14, OtherStep DEF vars, Here
<1> QED
  BY <1>1, <1>2, <1>3, <1>4, <1>5, <1>6, <1>7, <1>8, <1>9, <1>10, <1>11,
     <1>12, <1>13, <1>14, RequestsStep DEF Next, MarryTable

LEMMA IInvHolds == Spec => []IInv
<1>1. Init => IInv BY InitIInv
<1>2. IInv /\ [Next]_vars => IInv' BY NextStep
<1> QED BY <1>1, <1>2, PTL DEF Spec

(* Every reachable state is of the type of the code's fields; above all,   *)
(* the room's counter of players is never taken below zero.                *)
THEOREM RoomTypeCorrect == Spec => []TypeOK
<1>1. IInv => TypeOK BY DEF IInv
<1> QED BY <1>1, IInvHolds, PTL

(* No pointer dangles between the players, the tables, the matching queue  *)
(* and the room, for any number of players, chairs and tables.             *)
THEOREM RoomMembership == Spec => []Membership
<1>1. IInv => Membership BY MembershipFromIInv
<1> QED BY <1>1, IInvHolds, PTL

(* The room implements MatchMaking: whoever is matched may meet when the   *)
(* game starts, and nobody comes into or out of a game that is played.     *)
THEOREM RoomImplements == Spec => ImplementsMatchMaking
<1>1. Init => Matches!Init
  <2>1. ASSUME Init
        PROVE  /\ {p \in Player : Here(p) /\ room.table[p] \notin room.playing} = {}
               /\ {room.seated[t] : t \in room.playing} = {}
               /\ blocks = [p \in Player |-> {}]
    BY <2>1 DEF Init, Here
  <2> QED BY <2>1 DEF Matches!Init
<1>2. IInv /\ [Next]_vars => [Matches!Next]_(Matches!vars)
  BY NextStep DEF Refines
<1> QED BY <1>1, <1>2, IInvHolds, PTL DEF Spec, ImplementsMatchMaking, Matches!Spec

-----------------------------------------------------------------------------
(* How many tables the room makes.  The count is taken in one place: when  *)
(* MarryTable makes a table for p, every other one is occupied by players  *)
(* of its own, none of them p, so a table can be mapped to one of its      *)
(* players without meeting any player twice.                               *)

(* An empty table is open to whoever was not sent away from it.            *)
LEMMA EmptyTableJoinable ==
    ASSUME IInv, NEW p \in Player, Queued(room, p), score[p] >= EnterMin,
           NEW t \in 1 .. room.made, t # room.queue[p], room.seated[t] = {}
    PROVE  t \in ReadyTables(room, p)
<1>1. t \in Table
  BY TablesAssumption DEF IInv, Sound, Room, Table
<1>2. Cardinality(room.seated[t]) = 0 /\ Chairs >= 1
  BY FS_EmptySet, ChairsAssumption
<1>3. t \notin room.playing
  BY <1>1, <1>2 DEF IInv, Civil
<1>4. ~IsFullTable(room, t)
  BY <1>2, ChairsAssumption DEF IsFullTable
<1>5. room.table[p] = NoTable
  BY DEF IInv, Sound, AtTable
<1> QED
  BY <1>3, <1>4, <1>5 DEF ReadyTables, CanEnterTable, IsExistIP, IsExistBlock

LEMMA TablesOccupied ==
    ASSUME IInv, NEW p \in Player, Queued(room, p), score[p] >= EnterMin,
           ReadyTables(room, p) = {}
    PROVE  room.made <= Cardinality(Player)
<1> DEFINE T == (1 .. room.made) \ {room.queue[p]}
           f == [t \in T |-> CHOOSE q \in Player : q \in room.seated[t]]
<1>1. room.made \in Nat /\ \A t \in 1 .. room.made : t \in Table
  BY TablesAssumption DEF IInv, Sound, Room, Table
<1>2. ASSUME NEW t \in T
      PROVE  f[t] \in Player \ {p} /\ room.table[f[t]] = t
  <2>1. room.seated[t] # {} /\ room.seated[t] \subseteq Player
    BY <1>1, EmptyTableJoinable DEF IInv, Sound, Room
  <2>2. f[t] \in Player /\ f[t] \in room.seated[t]
    BY <2>1
  <2>3. room.table[f[t]] = t
    BY <1>1, <2>2 DEF IInv, Sound
  <2>4. room.table[p] = NoTable
    BY DEF IInv, Sound, AtTable
  <2> QED BY <1>1, <2>2, <2>3, <2>4, TableFacts
<1>3. f \in Injection(T, Player \ {p})
  <2>1. f \in [T -> Player \ {p}]
    BY <1>2
  <2>2. \A t, u \in T : f[t] = f[u] => t = u
    BY <1>2
  <2> HIDE DEF f, T
  <2> QED BY <2>1, <2>2 DEF Injection, IsInjective
<1>4. /\ IsFiniteSet(Player \ {p})
      /\ Cardinality(Player \ {p}) = Cardinality(Player) - 1
      /\ Cardinality(Player) \in Nat
  BY PlayerAssumption, FS_RemoveElement, FS_CardinalityType
<1>5. /\ IsFiniteSet(1 .. room.made)
      /\ Cardinality(1 .. room.made) = room.made
  <2> DEFINE n == room.made
  <2>1. n \in Nat BY <1>1
  <2> HIDE DEF n
  <2>2. /\ IsFiniteSet(1 .. n)
        /\ Cardinality(1 .. n) = IF 1 > n THEN 0 ELSE n - 1 + 1
    BY ONLY <2>1, FS_Interval
  <2>3. Cardinality(1 .. n) = n BY ONLY <2>1, <2>2
  <2> QED BY <2>2, <2>3 DEF n
<1>6. Cardinality(T) >= room.made - 1
  <2> DEFINE S == 1 .. room.made
             x == room.queue[p]
  <2>1. IsFiniteSet(S) /\ Cardinality(S) = room.made
    BY <1>5
  <2> HIDE DEF S, x
  <2>2. Cardinality(S \ {x}) = IF x \in S THEN Cardinality(S) - 1 ELSE Cardinality(S)
    BY <2>1, FS_RemoveElement
  <2>3. Cardinality(S \ {x}) >= room.made - 1
    BY <1>1, <2>1, <2>2
  <2> QED BY <2>3 DEF S, x
<1>7. Cardinality(T) <= Cardinality(Player \ {p}) /\ Cardinality(T) \in Nat
  <2> HIDE DEF f
  <2>1. IsFiniteSet(T)
    BY <1>5, FS_RemoveElement
  <2> QED BY <1>3, <1>4, <2>1, FS_Injection, FS_CardinalityType
<1> HIDE DEF T
<1> QED BY <1>1, <1>4, <1>6, <1>7

LEMMA SitAloneMade ==
    ASSUME NEW w, NEW p \in Player, NEW t \in Table,
           Sound(w, {}), Civil(w), Queued(w, p), SitAlone(w, p, t)
    PROVE  room'.made = w.made
<1>1. CASE CanEnterTable(w, p, t)
  <2> DEFINE v == LeaveMarry(TakeChair(w, p, t), p)
  <2>1. room' = v BY <1>1 DEF SitAlone
  <2> QED BY <1>1, <2>1, TakeChairSound
<1>2. CASE ~CanEnterTable(w, p, t)
  <2>1. room' = LeaveRoom(w, p) BY <1>2 DEF SitAlone
  <2> QED BY <2>1, LeaveRoomSound
<1> QED BY <1>1, <1>2

(* A player below the limit may sit nowhere, and is out of the room then.  *)
LEMMA SitAloneExpels ==
    ASSUME NEW w, NEW p \in Player, NEW t,
           Sound(w, {}), Queued(w, p), ~(score[p] >= EnterMin), SitAlone(w, p, t)
    PROVE  p \notin room'.members
<1>1. room' = LeaveRoom(w, p) BY DEF SitAlone, CanEnterTable
<1>2. CanLeaveTable(w, p) BY DEF Sound, CanLeaveTable
<1> QED BY <1>1, <1>2, LeaveRoomSound

LEMMA MarryMakes ==
    ASSUME IInv, NEW p \in Player, MarryNext(p)
    PROVE  \/ room'.made = room.made
           \/ /\ room'.made = room.made + 1
              /\ ReadyTables(room, p) = {} /\ Queued(room, p)
              /\ score[p] >= EnterMin \/ p \notin room'.members
<1>1. Queued(room, p) /\ Sound(room, {}) /\ Civil(room)
  BY DEF MarryNext, IInv
<1>2. CASE JoinNoFullTable(p)
  <2>1. PICK t \in ReadyTables(room, p) :
          room' = LeaveMarry(TakeChair(room, p, t), p)
    BY <1>2 DEF JoinNoFullTable
  <2>2. t \in Table /\ CanEnterTable(room, p, t)
    BY <2>1, TablesAssumption DEF ReadyTables, IInv, Sound, Room, Table
  <2> DEFINE v == LeaveMarry(TakeChair(room, p, t), p)
  <2>3. v.made = room.made
    BY <1>1, <2>2, TakeChairSound
  <2> QED BY <2>1, <2>3
<1>3. CASE /\ ReadyTables(room, p) = {}
           /\ room.made < MaxTables
           /\ SitAlone(MallocTable(room), p, room.made + 1)
  <2> DEFINE w == MallocTable(room)
  <2>1. /\ Sound(w, {}) /\ Civil(w)
        /\ w.queue = room.queue
        /\ room.made + 1 \in Table
    BY <1>1, <1>3, MallocTableSound
  <2>2. w.made = room.made + 1
    BY DEF MallocTable, IInv, Sound, Room
  <2>3. Queued(w, p) BY <1>1, <2>1 DEF Queued
  <2>4. room'.made = w.made
    BY <1>3, <2>1, <2>3, SitAloneMade
  <2>5. score[p] >= EnterMin \/ p \notin room'.members
    BY <1>3, <2>1, <2>3, SitAloneExpels
  <2> QED BY <1>1, <1>3, <2>2, <2>4, <2>5
<1>4. CASE ~NeedTable /\ SitAlone(room, p, marry.fresh)
  <2>1. marry.fresh \in Table
    BY <1>4 DEF NeedTable, IInv, TypeOK
  <2> QED BY <1>1, <1>4, <2>1, SitAloneMade
<1> QED BY <1>2, <1>3, <1>4 DEF MarryNext, JoinFreshTable

LEMMA RequestMade ==
    ASSUME IInv, NEW p \in Player,
           \/ EnterThisRoom(p) \/ EnterOtherRoom(p) \/ FastJoinRoom(p)
           \/ ChangeTable(p) \/ EnterTable(p) \/ LeaveTableReq(p) \/ TableReady(p)
    PROVE  room'.made = room.made
<1>0. Sound(room, {})
  BY DEF IInv
<1>1. CASE EnterThisRoom(p)
  BY <1>0, <1>1, EnterRoomSound DEF EnterThisRoom, RoomRequest
<1>2. CASE EnterOtherRoom(p)
  BY <1>0, <1>2, LeaveRoomSound DEF EnterOtherRoom, RoomRequest
<1>3. CASE FastJoinRoom(p)
  <2> DEFINE u == LeaveRoom(room, p)
             v == EnterRoom(u, p)
             w == FastJoinTable(v, p)
  <2>1. room' = IF CanEnterRoom(p) THEN w ELSE u
    BY <1>3 DEF FastJoinRoom, RoomRequest
  <2>2. Sound(u, {}) /\ u.made = room.made
    BY <1>0, LeaveRoomSound
  <2> HIDE DEF u
  <2>3. Sound(v, {}) /\ v.made = u.made
    BY <2>2, EnterRoomSound
  <2> HIDE DEF v
  <2>4. w.made = v.made
    BY <2>3, FastJoinSound
  <2> HIDE DEF w
  <2> QED BY <2>1, <2>2, <2>3, <2>4
<1>4. CASE ChangeTable(p)
  BY <1>0, <1>4, FastJoinSound DEF ChangeTable, RoomRequest
<1>5. CASE EnterTable(p)
  <2> DEFINE u == LeaveTable(room, p)
             v == JoinMarry(u, p, NoTable)
  <2>1. /\ room' = v
        /\ p \in room.members
        /\ CanLeaveTable(room, p)
    BY <1>5 DEF EnterTable, RoomRequest
  <2>2. /\ Sound(u, {})
        /\ u.members = room.members
        /\ u.made = room.made
        /\ ~AtTable(u, p)
    BY <1>0, <2>1, LeaveTableSound DEF AtTable
  <2> HIDE DEF u
  <2>3. v.made = u.made
    BY <2>1, <2>2, JoinMarrySound
  <2> HIDE DEF v
  <2> QED BY <2>1, <2>2, <2>3
<1>6. CASE LeaveTableReq(p)
  <2>1. room' = LeaveRoom(LeaveTable(room, p), p) /\ CanLeaveTable(room, p)
    BY <1>6 DEF LeaveTableReq, RoomRequest
  <2> QED BY <1>0, <2>1, LeaveBothSound
<1>7. CASE TableReady(p)
  BY <1>0, <1>7, PlayerReadySound DEF TableReady, RoomRequest
<1> QED BY <1>1, <1>2, <1>3, <1>4, <1>5, <1>6, <1>7

(* Only MarryTable makes tables.                                           *)
LEMMA OthersMakeNone ==
    ASSUME IInv, [Next]_vars, ~\E p \in Player : MarryNext(p)
    PROVE  room'.made = room.made
<1>0. Sound(room, {}) /\ Civil(room)
  BY DEF IInv
<1>1. ASSUME room' = room PROVE room'.made = room.made
  BY <1>1
<1>2. ASSUME NEW p \in Player, EnterSvr(p) \/ Reconnect(p) \/ AccountChanges(p)
      PROVE  room'.made = room.made
  BY <1>2 DEF EnterSvr, Reconnect, AccountChanges
<1>3. ASSUME NEW p \in Player, ClientGone(p) \/ HeartTimeout(p)
      PROVE  room'.made = room.made
  <2>1. room' = IF AtTable(room, p) /\ CanLeaveTable(room, p)
                THEN LeaveRoom(LeaveTable(room, p), p)
                ELSE room
    BY <1>3 DEF ClientGone, HeartTimeout, SetNetStateOff
  <2> QED BY <1>0, <2>1, LeaveBothSound
<1>4. ASSUME NEW p \in Player, BackLobby(p) \/ CheckRecoverPlayer(p)
      PROVE  room'.made = room.made
  <2>1. room' = LeaveRoom(LeaveTable(room, p), p) /\ CanLeaveTable(room, p)
    BY <1>4 DEF BackLobby, CheckRecoverPlayer, NeedRecover, CanBackLobby, Delete, OnLoginOut
  <2> QED BY <1>0, <2>1, LeaveBothSound
<1>5. ASSUME NEW t \in Table, TableTick(t) PROVE room'.made = room.made
  <2>1. PICK late \in SUBSET (room.seated[t] \cap room.ready) :
          room' = IF IsAllReady(CheckReadyTimeOut(room, t, late), t)
                  THEN OnGameStart(CheckReadyTimeOut(room, t, late), t)
                  ELSE CheckReadyTimeOut(room, t, late)
    BY <1>5 DEF TableTick
  <2> DEFINE w == CheckReadyTimeOut(room, t, late)
             v == OnGameStart(w, t)
  <2>2. Sound(w, {}) /\ Civil(w) /\ w.made = room.made
    <3>1. t \notin room.playing /\ late \subseteq room.seated[t]
      BY <1>5, <2>1 DEF TableTick
    <3> QED BY <1>0, <3>1, CheckReadyTimeOutSound
  <2>3. room' = IF IsAllReady(w, t) THEN v ELSE w
    BY <2>1
  <2> HIDE DEF w
  <2>4. IsAllReady(w, t) => v.made = w.made
    BY <2>2, OnGameStartSound DEF IsAllReady
  <2> HIDE DEF v
  <2> QED BY <2>2, <2>3, <2>4
<1>6. ASSUME NEW t \in Table, ReGameStart(t) PROVE room'.made = room.made
  <2> DEFINE w == ResetPlayerReady(room, t)
             v == OnGameStart(w, t)
  <2>1. t \in room.playing /\ room' = v
    BY <1>6 DEF ReGameStart
  <2>2. Sound(w, {}) /\ Civil(w) /\ w.made = room.made /\ w.playing = room.playing
    BY <1>0, ResetPlayerReadySound
  <2>3. Cardinality(w.seated[t]) = Chairs
    BY <2>1, <2>2 DEF Civil
  <2> HIDE DEF w
  <2>4. v.made = w.made
    BY <2>2, <2>3, OnGameStartSound
  <2> HIDE DEF v
  <2> QED BY <2>1, <2>2, <2>4
<1>7. ASSUME NEW t \in Table, OnGameEnd(t) PROVE room'.made = room.made
  <2> DEFINE w == ResetPlayerReady(room, t)
             n == [w EXCEPT !.playing = @ \ {t}]
  <2>1. PICK rich \in SUBSET room.seated[t] : room' = CheckPlayerScoreManyLeave(n, t, rich)
    BY <1>7 DEF OnGameEnd
  <2>2. /\ Sound(w, {}) /\ w.made = room.made
        /\ w.seated = room.seated
        /\ w.ready = room.ready \ room.seated[t]
    BY <1>0, ResetPlayerReadySound
  <2> HIDE DEF w
  <2>3. /\ Sound(n, {}) /\ n.made = w.made
        /\ n.seated = w.seated /\ n.ready = w.ready
    BY <2>2, GameOverSound
  <2> HIDE DEF n
  <2>4. rich \subseteq n.seated[t] /\ n.ready \cap n.seated[t] = {}
    BY <2>1, <2>2, <2>3
  <2>5. room'.made = n.made
    BY <2>1, <2>3, <2>4, ManyLeaveSound
  <2> QED BY <2>2, <2>3, <2>5
<1>8. ASSUME BeginMarry \/ EndMarry \/ NotifyStopServer \/ UNCHANGED vars
      PROVE  room'.made = room.made
  BY <1>8 DEF BeginMarry, EndMarry, NotifyStopServer, vars
<1> QED
  BY <1>2, <1>3, <1>4, <1>5, <1>6, <1>7, <1>8, RequestMade DEF Next, MarryTable

(* A table is made only while there is not one for each player and one     *)
(* more, or for a player whose coin has fallen below the room's limit and  *)
(* that is expelled by the same step (MarryTable, JoinNoFullTable).        *)
THEOREM RoomFewTables == Spec => FewTables
<1>1. Cardinality(Player) \in Nat
  BY PlayerAssumption, FS_CardinalityType
<1>2. ASSUME IInv, [Next]_vars, room'.made > room.made
      PROVE  room'.made <= Cardinality(Player) + 1 \/ \E p \in Player : Expelled(p)
  <2>1. room.made \in Nat
    BY <1>2, TablesAssumption DEF IInv, Sound, Room, Table
  <2>2. PICK p \in Player : MarryNext(p)
    BY <1>2, <2>1, OthersMakeNone
  <2>3. /\ room'.made = room.made + 1
        /\ ReadyTables(room, p) = {} /\ Queued(room, p)
        /\ score[p] >= EnterMin \/ p \notin room'.members
    BY <1>2, <2>1, <2>2, MarryMakes
  <2>4. CASE score[p] >= EnterMin
    <3>1. room.made <= Cardinality(Player) BY <1>2, <2>3, <2>4, TablesOccupied
    <3> QED BY <1>1, <2>1, <2>3, <3>1
  <2>5. CASE ~(score[p] >= EnterMin)
    <3>1. score[p] \in Nat /\ EnterMin \in Nat
      BY <1>2, LimitAssumption DEF IInv, TypeOK, Score
    <3>2. Expelled(p) BY <2>3, <2>5, <3>1 DEF Expelled
    <3> QED BY <3>2
  <2> QED BY <2>4, <2>5
<1>3. IInv /\ [Next]_vars
        => [room'.made > room.made =>
              room'.made <= Cardinality(Player) + 1 \/ \E p \in Player : Expelled(p)]_vars
  BY <1>2
<1> QED BY <1>3, IInvHolds, PTL DEF Spec, FewTables
=============================================================================
