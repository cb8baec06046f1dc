------------------------- MODULE BankerMoneyProofs -------------------------
(***************************************************************************)
(* Proofs about the coin of BankerTable: the bets against which a bet is   *)
(* checked are those from which the round is settled, and no step makes    *)
(* coin out of nothing.                                                    *)
(*                                                                         *)
(* Whatever is not a settlement makes no player richer, coin and lock      *)
(* together, so that each member function has a lemma about one player.    *)
(* A settlement moves coin, and is weighed over all the players.           *)
(***************************************************************************)
EXTENDS BankerTableProofs

(* What a player has, at hand and locked.                                  *)
Worth(w, p) == w.coin[p] + w.lock[p]

NoRicher(w, v) == \A p \in Player : Worth(v, p) <= Worth(w, p)

(* Added to IInv: while bets are taken, they add up to the table's total,  *)
(* and the banker has none, so that it settles with the others only.       *)
Balanced ==
    state = "jetton" =>
        /\ tb.all = Sum([p \in Player |-> Bet(tb, p)])
        /\ Bet(tb, tb.banker) = 0

LEMMA WorthType == \A w \in Tb : \A p \in Player : Worth(w, p) \in Nat
  BY DEF Worth, Tb

LEMMA NoRicherTransitive ==
    ASSUME NEW u \in Tb, NEW v \in Tb, NEW w \in Tb,
           NoRicher(u, v), NoRicher(v, w)
    PROVE  NoRicher(u, w)
<1> SUFFICES ASSUME NEW p \in Player PROVE Worth(w, p) <= Worth(u, p)
  BY DEF NoRicher
<1>1. Worth(u, p) \in Int /\ Worth(v, p) \in Int /\ Worth(w, p) \in Int
  BY WorthType
<1>2. Worth(w, p) <= Worth(v, p) /\ Worth(v, p) <= Worth(u, p) BY DEF NoRicher
<1> QED BY <1>1, <1>2

LEMMA SameWorth ==
    ASSUME NEW w \in Tb, NEW v, v.coin = w.coin, v.lock = w.lock
    PROVE  NoRicher(w, v)
<1>1. \A p \in Player : Worth(v, p) = Worth(w, p) /\ Worth(w, p) \in Int
  BY WorthType DEF Worth
<1> QED BY <1>1 DEF NoRicher

(* If nobody is richer, the players together are not.                      *)
LEMMA HeldIsLess ==
    ASSUME NEW w \in Tb, NEW v \in Tb, NoRicher(w, v)
    PROVE  Held(v) <= Held(w)
<1> DEFINE f == [p \in Player |-> v.coin[p] + v.lock[p]]
           g == [p \in Player |-> w.coin[p] + w.lock[p]]
<1>1. f \in [Player -> Nat] /\ g \in [Player -> Nat]
  <2>1. \A p \in Player : v.coin[p] + v.lock[p] \in Nat BY WorthType DEF Worth
  <2>2. \A p \in Player : w.coin[p] + w.lock[p] \in Nat BY WorthType DEF Worth
  <2> QED BY ONLY <2>1, <2>2 DEF f, g
<1>2. \A p \in Player : f[p] <= g[p] BY DEF NoRicher, Worth
<1> HIDE DEF f, g
<1>3. Sum(f) <= Sum(g) BY <1>1, <1>2, PlayerAssumption, SumMonotone
<1> QED BY <1>3 DEF Held, f, g

-----------------------------------------------------------------------------
(* The member functions.                                                   *)
LEMMA UnlockWorth ==
    ASSUME NEW w \in Tb, NEW out \in SUBSET Player
    PROVE  Unlock(w, out) \in Tb /\ NoRicher(w, Unlock(w, out))
<1> DEFINE v == Unlock(w, out)
<1>1. v \in Tb BY UnlockParts
<1>2. w.coin \in [Player -> Nat] /\ w.lock \in [Player -> Nat] BY DEF Tb
<1>3. /\ v.coin = [p \in Player |->
                    IF p \in out THEN w.coin[p] + w.lock[p] ELSE w.coin[p]]
      /\ v.lock = [p \in Player |-> IF p \in out THEN 0 ELSE w.lock[p]]
  BY DEF Unlock, Tb
<1> HIDE DEF v
<1>4. \A p \in Player : Worth(v, p) <= Worth(w, p) BY <1>2, <1>3 DEF Worth
<1> QED BY <1>1, <1>4 DEF NoRicher, v

LEMMA RemoveWorth ==
    ASSUME NEW w \in Tb, NEW p \in Player
    PROVE  NoRicher(w, RemoveApplyBanker(w, p))
<1> DEFINE v == RemoveApplyBanker(w, p)
           u == Unlock(w, {p})
<1>1. {p} \in SUBSET Player OBVIOUS
<1>2. u \in Tb /\ NoRicher(w, u) BY <1>1, UnlockWorth
<1>3. CASE ~IsInApplyList(w, p)
  <2>1. v = w BY <1>3 DEF RemoveApplyBanker
  <2> QED BY <2>1, SameWorth
<1>4. CASE IsInApplyList(w, p)
  <2>1. PICK s : v = [u EXCEPT !.list = s]
    BY <1>4 DEF RemoveApplyBanker
  <2> HIDE DEF u, v
  <2>2. v.coin = u.coin /\ v.lock = u.lock BY <1>2, <2>1 DEF Tb
  <2>3. NoRicher(w, v) BY <1>2, <2>2 DEF NoRicher, Worth
  <2> QED BY <2>3 DEF v
<1> QED BY <1>3, <1>4

LEMMA TakeTurnsWorth ==
    ASSUME NEW w \in Tb
    PROVE  NoRicher(w, TakeTurns(w))
<1> DEFINE v == TakeTurns(w)
<1>1. w.list \in Seq(Player) BY DEF Tb
<1>2. /\ DOMAIN w.list = 1 .. Len(w.list) /\ Len(w.list) \in Nat
      /\ \A i \in DOMAIN w.list : w.list[i] \in Player
  BY <1>1, SeqFacts
<1>3. CASE state # "free"
  <2>1. v = w BY <1>3 DEF TakeTurns
  <2> QED BY <2>1, SameWorth
<1>4. CASE state = "free" /\ \A i \in DOMAIN w.list : ~Eligible(w, i)
  <2> DEFINE u == Unlock(w, Before(w, Len(w.list)))
  <2>1. v = [u EXCEPT !.list = <<>>] BY <1>4 DEF TakeTurns
  <2>2. Before(w, Len(w.list)) \in SUBSET Player BY <1>2 DEF Before
  <2>3. u \in Tb /\ NoRicher(w, u) BY <2>2, UnlockWorth
  <2> HIDE DEF u, v
  <2>4. v.coin = u.coin /\ v.lock = u.lock BY <2>1, <2>3 DEF Tb
  <2>5. NoRicher(w, v) BY <2>3, <2>4 DEF NoRicher, Worth
  <2> QED BY <2>5 DEF v
<1>5. CASE state = "free" /\ ~ \A i \in DOMAIN w.list : ~Eligible(w, i)
  <2> DEFINE i == First(w)
             u == Unlock(w, Before(w, i))
  <2>1. i \in DOMAIN w.list BY <1>5, FirstExists
  <2>2. Before(w, i) \in SUBSET Player BY <1>2, <2>1 DEF Before
  <2>3. u \in Tb /\ NoRicher(w, u) BY <2>2, UnlockWorth
  <2>4. PICK p, b : v = [u EXCEPT !.list = SubSeq(@, i + 1, Len(@)),
                                  !.banker = p, !.bank = b]
    <3>1. ~ \A j \in DOMAIN w.list : ~Eligible(w, j) BY <1>5
    <3> DEFINE n == w.lock[w.list[i]]
    <3>2. v = [u EXCEPT !.list = SubSeq(@, i + 1, Len(@)),
                        !.banker = w.list[i],
                        !.bank = Taken(n, w.list[i] \in w.auto)]
      BY <1>5, <3>1, Zenon DEF TakeTurns, Taken
    <3> HIDE DEF u, v, i
    <3> QED BY <3>2, Zenon
  <2> HIDE DEF u, v, i
  <2>5. v.coin = u.coin /\ v.lock = u.lock BY <2>3, <2>4 DEF Tb
  <2>6. NoRicher(w, v) BY <2>3, <2>5 DEF NoRicher, Worth
  <2> QED BY <2>6 DEF v
<1> QED BY <1>3, <1>4, <1>5

LEMMA AutoAddWorth ==
    ASSUME NEW w \in Tb
    PROVE  NoRicher(w, AutoAddBankerScore(w))
<1> DEFINE v == AutoAddBankerScore(w)
           diff == Min2(w.bank.init - w.bank.score,
                        w.coin[w.banker] - w.bank.score)
<1>1. v = w \/ v = [w EXCEPT !.bank.buyin = @ + diff, !.bank.score = @ + diff]
  BY DEF AutoAddBankerScore
<1> HIDE DEF v, diff
<1>2. v.coin = w.coin /\ v.lock = w.lock BY <1>1 DEF Tb
<1> QED BY <1>2, SameWorth DEF v

LEMMA EarlyFeeNat ==
    ASSUME NEW b \in Bank
    PROVE  EarlyFee(b) \in Nat
<1>1. CASE b.win > EarlyWin /\ b.time \in DOMAIN EarlyPro
  <2>1. EarlyPro[b.time] \in 0 .. 100 BY <1>1, CostAssumption
  <2>2. b.win \in Nat BY <1>1, Figures DEF Bank
  <2>3. b.win * EarlyPro[b.time] \in Nat BY <2>1, <2>2
  <2>4. EarlyFee(b) = (b.win * EarlyPro[b.time]) \div 100
    BY <1>1 DEF EarlyFee
  <2> DEFINE x == b.win * EarlyPro[b.time]
  <2> HIDE DEF x
  <2>5. x \in Nat /\ EarlyFee(b) = x \div 100 BY <2>3, <2>4 DEF x
  <2> QED BY <2>5
<1>2. CASE ~(b.win > EarlyWin /\ b.time \in DOMAIN EarlyPro)
  BY <1>2 DEF EarlyFee
<1> QED BY <1>1, <1>2

(* A banker that steps down pays a fee on what it won.                     *)
LEMMA CalcBankerWorth ==
    ASSUME NEW w, Sound(w), w.banker # NoOne
    PROVE  NoRicher(w, CalcBankerScore(w))
<1> DEFINE p == w.banker
           n == Max0(w.coin[p] - EarlyFee(w.bank))
           u == [w EXCEPT !.coin[p] = Max0(@ - EarlyFee(w.bank))]
           v == ResetGameData(u)
<1>1. w \in Tb /\ p \in Player /\ ~IsInApplyList(w, p)
  BY DEF Sound, Tb, Locks
<1>2. n \in Nat /\ n <= w.coin[p]
  <2>1. w.coin[p] \in Nat /\ w.bank \in Bank BY <1>1 DEF Tb
  <2>2. EarlyFee(w.bank) \in Nat BY <2>1, EarlyFeeNat
  <2> QED BY <2>1, <2>2 DEF Max0
<1>3. u = [w EXCEPT !.coin = [@ EXCEPT ![p] = n]] BY <1>1 DEF Tb
<1> HIDE DEF n
<1>4. u \in Tb /\ u.list = w.list /\ u.lock = w.lock
      /\ u.coin = [w.coin EXCEPT ![p] = n]
  <2> HIDE DEF u, p
  <2> QED BY <1>1, <1>2, <1>3 DEF Tb
<1> HIDE DEF u
<1>5. RemoveApplyBanker(u, p) = u
  BY <1>1, <1>4 DEF RemoveApplyBanker, IsInApplyList
<1>6. CalcBankerScore(w) = v BY <1>5 DEF CalcBankerScore, u, n
<1>7. v.lock = w.lock /\ v.coin = [w.coin EXCEPT ![p] = n]
  BY <1>4, ResetParts
<1> HIDE DEF v
<1>8. \A q \in Player : Worth(v, q) <= Worth(w, q)
  <2> HIDE DEF p
  <2>1. w.coin \in [Player -> Nat] /\ w.lock \in [Player -> Nat] BY <1>1 DEF Tb
  <2> QED BY <1>1, <1>2, <1>7, <2>1 DEF Worth
<1> QED BY <1>6, <1>8 DEF NoRicher

LEMMA ChangeBankerWorth ==
    ASSUME NEW w, Sound(w), Cleared(w)
    PROVE  NoRicher(w, ChangeBanker(w))
<1>1. w \in Tb BY DEF Sound
<1>2. CASE w.banker = NoOne
  <2>1. ChangeBanker(w) = TakeTurns(w) BY <1>2 DEF ChangeBanker
  <2> QED BY <1>1, <2>1, TakeTurnsWorth
<1>3. CASE w.banker # NoOne
  <2> DEFINE u == AutoAddBankerScore(w)
             c == CalcBankerScore(u)
  <2>1. /\ Sound(u) /\ u.banker = w.banker /\ u \in Tb /\ NoRicher(w, u)
    BY <1>1, <1>3, AutoAddSound, AutoAddWorth DEF Sound
  <2>2. ChangeBanker(w) = IF StepsDown(u.bank) THEN TakeTurns(c) ELSE u
    BY <1>3 DEF ChangeBanker
  <2> HIDE DEF u
  <2>3. Sound(c) /\ Cleared(c) /\ c.banker = NoOne /\ c \in Tb /\ NoRicher(u, c)
    BY <1>3, <2>1, CalcBankerSound, CalcBankerWorth DEF Sound
  <2> HIDE DEF c
  <2>4. TakeTurns(c) \in Tb /\ NoRicher(c, TakeTurns(c))
    BY <2>3, TakeTurnsSound, TakeTurnsWorth DEF Sound
  <2>5. NoRicher(u, TakeTurns(c)) BY <2>1, <2>3, <2>4, NoRicherTransitive
  <2>6. NoRicher(w, TakeTurns(c)) BY <1>1, <2>1, <2>4, <2>5, NoRicherTransitive
  <2> QED BY <2>1, <2>2, <2>6
<1> QED BY <1>2, <1>3

(* An application locks what it takes, as nothing was locked before.       *)
LEMMA AppliedWorth ==
    ASSUME NEW w, Sound(w), NEW p \in Player, p \in here, NEW n \in Nat,
           NEW auto \in BOOLEAN, CanApply(w, p, n),
           state = "free" => Cleared(w) /\ Strong(w),
           NEW v \in Applied(w, p, n, auto)
    PROVE  NoRicher(w, v)
<1> DEFINE q == Queue(w, p, n, auto)
           u == Queued(w, p, n, auto)
<1>1. w \in Tb /\ q \in Tb BY QueueSound DEF Sound
<1>2. /\ Sound(u) /\ Keeps(w, u)
      /\ u.coin[p] = w.coin[p] - n /\ u.lock[p] = n
      /\ \A r \in Player \ {p} :
            u.coin[r] = w.coin[r] /\ u.lock[r] = w.lock[r]
      /\ q = u \/ (state = "free" /\ q = ChangeBanker(u))
  BY QueuedSound
<1>3. PICK s : v = [q EXCEPT !.list = s] BY DEF Applied
<1> HIDE DEF q, u
<1>4. u \in Tb /\ NoRicher(w, u)
  <2>1. u \in Tb BY <1>2 DEF Sound
  <2>2. w.lock[p] = 0 BY DEF Sound, Locks, CanApply
  <2>3. \A r \in Player : w.coin[r] \in Int /\ w.lock[r] \in Int
    BY <1>1 DEF Tb
  <2>4. \A r \in Player : Worth(u, r) <= Worth(w, r)
    BY <1>2, <2>2, <2>3 DEF Worth
  <2> QED BY <2>1, <2>4 DEF NoRicher
<1>5. NoRicher(w, q)
  <2>1. CASE q = u BY <1>4, <2>1
  <2>2. CASE state = "free" /\ q = ChangeBanker(u)
    <3>1. Cleared(u) BY <1>2, <2>2 DEF Cleared, Keeps
    <3>2. NoRicher(u, q) BY <1>2, <2>2, <3>1, ChangeBankerWorth
    <3> QED BY <1>1, <1>4, <3>2, NoRicherTransitive
  <2> QED BY <1>2, <2>1, <2>2
<1>6. v.coin = q.coin /\ v.lock = q.lock BY <1>1, <1>3 DEF Tb
<1> QED BY <1>5, <1>6 DEF NoRicher, Worth

-----------------------------------------------------------------------------
(* The settlement.  No area pays, or takes, more than Rate times the bet.  *)
LEMMA AreaBound ==
    ASSUME NEW x \in Nat, NEW k \in -Rate .. Rate
    PROVE  Max0(x * k) <= Rate * x /\ Max0(-x * k) <= Rate * x
<1>1. Rate \in Nat /\ k \in Int /\ Rate - k \in Nat /\ Rate + k \in Nat
  BY Figures
<1>2. (Rate - k) * x \in Nat /\ (Rate + k) * x \in Nat /\ Rate * x \in Nat
      /\ x * k \in Int
  BY <1>1
<1>3. /\ (Rate - k) * x = Rate * x - x * k
      /\ (Rate + k) * x = Rate * x + x * k
      /\ -x * k = 0 - x * k
  BY <1>1
<1> DEFINE y == x * k
           z == Rate * x
<1>4. y \in Int /\ z \in Nat /\ y <= z /\ 0 - y <= z BY <1>2, <1>3
<1>5. Max0(y) <= z /\ Max0(0 - y) <= z
  <2> HIDE DEF y, z
  <2> QED BY <1>4 DEF Max0
<1> QED BY <1>3, <1>5

LEMMA GrossLossBound ==
    ASSUME NEW b \in Bets, NEW m \in Outcome
    PROVE  Gross(b, m) <= Rate * Total(b) /\ Loss(b, m) <= Rate * Total(b)
<1>1. \A a \in Area : b[a] \in Nat /\ m[a] \in -Rate .. Rate
  BY DEF Bets, Outcome
<1>2. 0 \in Area /\ 1 \in Area /\ 2 \in Area BY DEF Area
<1> DEFINE G(a) == Max0(b[a] * m[a])
           L(a) == Max0(-b[a] * m[a])
           R(a) == Rate * b[a]
<1>3. \A a \in Area : /\ G(a) \in Nat /\ L(a) \in Nat /\ R(a) \in Nat
                      /\ G(a) <= R(a) /\ L(a) <= R(a)
  <2> SUFFICES ASSUME NEW a \in Area
               PROVE  /\ G(a) \in Nat /\ L(a) \in Nat /\ R(a) \in Nat
                      /\ G(a) <= R(a) /\ L(a) <= R(a)
    OBVIOUS
  <2>1. b[a] \in Nat /\ m[a] \in Int BY <1>1, Figures
  <2>2. G(a) \in Nat /\ L(a) \in Nat BY <2>1, Max0Product
  <2>3. R(a) \in Nat BY <2>1, Figures
  <2>4. G(a) <= R(a) /\ L(a) <= R(a) BY <1>1, AreaBound
  <2> QED BY <2>2, <2>3, <2>4
<1>4. Rate * Total(b) = R(0) + R(1) + R(2)
  <2>1. b[0] \in Nat /\ b[1] \in Nat /\ b[2] \in Nat /\ Rate \in Nat
    BY <1>1, <1>2, Figures
  <2> QED BY <2>1 DEF Total
<1>5. Gross(b, m) = G(0) + G(1) + G(2) /\ Loss(b, m) = L(0) + L(1) + L(2)
  BY DEF Gross, Loss
<1> HIDE DEF G, L, R
<1> QED BY <1>2, <1>3, <1>4, <1>5

LEMMA FeeBound ==
    ASSUME NEW n \in Nat
    PROVE  DeducEndFee(n) \in Nat /\ DeducEndFee(n) <= n
<1>1. FeeRate \in Nat /\ FeeRate <= 100 BY Figures
<1> DEFINE x == n * FeeRate
<1>2. x \in Nat /\ x <= n * 100
  <2>1. n * (100 - FeeRate) \in Nat BY <1>1
  <2>2. n * (100 - FeeRate) = n * 100 - x BY <1>1
  <2> QED BY <1>1, <2>1, <2>2
<1>3. Max0(n) = n BY DEF Max0
<1>4. DeducEndFee(n) = x \div 100 BY <1>3 DEF DeducEndFee
<1> HIDE DEF x
<1> QED BY <1>2, <1>4

(* An amount of some of the players, with nothing for the others.          *)
Extended(g) == [p \in Player |-> IF p \in DOMAIN g THEN g[p] ELSE 0]

LEMMA SumExtended ==
    ASSUME NEW T \in SUBSET Player, NEW g \in [T -> Nat]
    PROVE  /\ Extended(g) \in [Player -> Nat]
           /\ \A p \in T : Extended(g)[p] = g[p]
           /\ \A p \in Player \ T : Extended(g)[p] = 0
           /\ Sum(Extended(g)) = Sum(g)
<1> DEFINE h == Extended(g)
<1>1. /\ h \in [Player -> Nat]
      /\ \A p \in T : h[p] = g[p]
      /\ \A p \in Player \ T : h[p] = 0
  BY DEF Extended
<1> HIDE DEF h
<1>2. Sum(h) = Sum(g) BY <1>1, SumOnSubset
<1> QED BY <1>1, <1>2 DEF h

(* What the areas of those at the table pay or take, added up, against     *)
(* what was bet in them: B bounds the part of each.                        *)
LEMMA PartOfBets ==
    ASSUME here \subseteq Player,
           NEW g \in [here -> Nat], NEW b \in [Player -> Nat],
           \A p \in here : g[p] <= Rate * b[p]
    PROVE  Sum(g) \in Nat /\ Sum(g) <= Rate * Sum(b)
<1> DEFINE h == Extended(g)
           r == [p \in Player |-> Rate * b[p]]
<1>1. IsFiniteSet(Player) /\ IsFiniteSet(here)
  BY PlayerAssumption, FS_Subset
<1>2. \A p \in Player : Rate * b[p] \in Nat BY Figures
<1>3. /\ h \in [Player -> Nat] /\ Sum(h) = Sum(g)
      /\ \A p \in here : h[p] = g[p]
      /\ \A p \in Player \ here : h[p] = 0
  <2>1. here \in SUBSET Player OBVIOUS
  <2> QED BY <2>1, SumExtended
<1>5. r \in [Player -> Nat] BY <1>2
<1> HIDE DEF h
<1>4. \A p \in Player : h[p] <= r[p] BY <1>2, <1>3
<1>6. Sum(r) = Rate * Sum(b) BY <1>1, Figures, SumScaled
<1> HIDE DEF h, r
<1>8. Sum(h) <= Sum(r) BY <1>1, <1>3, <1>4, <1>5, SumMonotone
<1>9. Sum(g) \in Nat BY <1>1, SumNat
<1> QED BY <1>3, <1>6, <1>8, <1>9

(* Amounts that change for all the players, and for one of them by what    *)
(* the others are given and have taken from them, less a fee.              *)
LEMMA Weighed ==
    ASSUME NEW x \in [Player -> Nat], NEW y \in [Player -> Nat],
           here \subseteq Player, NEW q \in Player,
           NEW g \in [here -> Nat], NEW l \in [here -> Nat], NEW n \in Int,
           q \in here => g[q] = 0 /\ l[q] = 0,
           n <= Sum(l) - Sum(g),
           y[q] = x[q] + n,
           \A p \in here \ {q} : y[p] + l[p] <= x[p] + g[p],
           \A p \in Player \ (here \cup {q}) : y[p] <= x[p]
    PROVE  Sum(y) <= Sum(x)
<1> DEFINE z == [p \in Player |-> IF p = q THEN x[p] ELSE y[p]]
           gg == Extended(g)
           ll == Extended(l)
           zl == [p \in Player |-> z[p] + ll[p]]
           xg == [p \in Player |-> x[p] + gg[p]]
<1>1. IsFiniteSet(Player) BY PlayerAssumption
<1>2. /\ z \in [Player -> Nat] /\ gg \in [Player -> Nat] /\ ll \in [Player -> Nat]
      /\ \A p \in here : gg[p] = g[p] /\ ll[p] = l[p]
      /\ \A p \in Player \ here : gg[p] = 0 /\ ll[p] = 0
      /\ Sum(gg) = Sum(g) /\ Sum(ll) = Sum(l)
  <2>1. z \in [Player -> Nat] OBVIOUS
  <2>2. here \in SUBSET Player OBVIOUS
  <2> HIDE DEF z
  <2>3. /\ gg \in [Player -> Nat] /\ Sum(gg) = Sum(g)
        /\ \A p \in here : gg[p] = g[p]
        /\ \A p \in Player \ here : gg[p] = 0
    BY <2>2, SumExtended
  <2>4. /\ ll \in [Player -> Nat] /\ Sum(ll) = Sum(l)
        /\ \A p \in here : ll[p] = l[p]
        /\ \A p \in Player \ here : ll[p] = 0
    BY <2>2, SumExtended
  <2> QED BY <2>1, <2>3, <2>4
<1>3. z[q] = x[q] /\ \A p \in Player \ {q} : z[p] = y[p]
  OBVIOUS
<1> HIDE DEF z, gg, ll
<1>4. zl \in [Player -> Nat] /\ xg \in [Player -> Nat]
      /\ \A p \in Player : zl[p] = z[p] + ll[p] /\ xg[p] = x[p] + gg[p]
  BY <1>2
<1> HIDE DEF zl, xg
<1>5. ASSUME NEW p \in Player PROVE zl[p] <= xg[p]
  <2>1. z[p] \in Nat /\ ll[p] \in Nat /\ x[p] \in Nat /\ gg[p] \in Nat /\ y[p] \in Nat
    BY <1>2
  <2>2. CASE p = q BY <1>2, <1>3, <1>4, <2>1, <2>2
  <2>3. CASE p # q /\ p \in here BY <1>2, <1>3, <1>4, <2>1, <2>3
  <2>4. CASE p # q /\ p \notin here BY <1>2, <1>3, <1>4, <2>1, <2>4
  <2> QED BY <2>2, <2>3, <2>4
<1>6. Sum(zl) <= Sum(xg) BY <1>1, <1>4, <1>5, SumMonotone
<1>7. Sum(zl) = Sum(z) + Sum(ll) BY <1>1, <1>2, <1>4, SumAdded
<1>8. Sum(xg) = Sum(x) + Sum(gg) BY <1>1, <1>2, <1>4, SumAdded
<1>11. Sum(y) + z[q] = Sum(z) + y[q]
  <2>1. \A p \in Player \ {q} : y[p] = z[p] BY <1>3
  <2> QED BY <1>1, <1>2, <2>1, SumChanged
<1>12. /\ Sum(x) \in Nat /\ Sum(y) \in Nat /\ Sum(z) \in Nat
       /\ Sum(gg) \in Nat /\ Sum(ll) \in Nat
  BY <1>1, <1>2, SumNat
<1>13. x[q] \in Nat /\ y[q] \in Nat /\ z[q] = x[q] BY <1>3
<1> QED BY <1>2, <1>6, <1>7, <1>8, <1>11, <1>12, <1>13

(* Where the bets are covered on both sides, a settlement only moves coin  *)
(* and takes fees: nothing is lost to Max0, by which a balance is kept     *)
(* from falling below zero.                                                *)
LEMMA SettleHeld ==
    ASSUME NEW w, Sound(w), here \subseteq Player, w.banker # NoOne,
           w.all = Sum([p \in Player |-> Bet(w, p)]), Bet(w, w.banker) = 0,
           Rate * w.all <= w.bank.score,
           \A p \in Player : Rate * Bet(w, p) <= w.coin[p],
           NEW m \in Outcome
    PROVE  Held(Settle(w, m)) <= Held(w)
<1> DEFINE q == w.banker
           n == BankerWon(w, m)
           l == [p \in here |-> Loss(w.bets[p], m)]
           g == [p \in here |-> Gross(w.bets[p], m)]
           b == [p \in Player |-> Bet(w, p)]
           v == Settle(w, m)
           c == [p \in Player |->
                   CASE p = w.banker -> Max0(w.coin[p] + n)
                     [] p \in here /\ p # w.banker ->
                           Max0(w.coin[p] + Won(w, p, m))
                     [] OTHER -> w.coin[p]]
           x == [p \in Player |-> w.coin[p] + w.lock[p]]
           y == [p \in Player |-> v.coin[p] + v.lock[p]]
<1>1. /\ w \in Tb /\ q \in Player /\ q \in here /\ w.bank.score <= w.coin[q]
      /\ w.bank.score \in Int
  BY DEF Sound, Seat, Tb, Bank
<1>2. w.coin \in [Player -> Nat] /\ w.lock \in [Player -> Nat]
      /\ w.bets \in [Player -> Bets]
  BY <1>1 DEF Tb
<1>3. v \in Tb BY SettleSound DEF Sound
<1>4. v.coin = c /\ v.lock = w.lock
  <2> HIDE DEF n
  <2>1. PICK k : v = [w EXCEPT !.coin = c, !.bank.score = @ + n,
                               !.bank.win = @ + n, !.bank.time = k]
    BY <1>1 DEF Settle, Tb, n
  <2> HIDE DEF c, v
  <2> QED BY <1>1, <2>1 DEF Tb
<1>5. /\ l \in [here -> Nat] /\ g \in [here -> Nat] /\ b \in [Player -> Nat]
      /\ \A p \in here : l[p] <= Rate * b[p] /\ g[p] <= Rate * b[p]
  <2>1. \A p \in here : w.bets[p] \in Bets BY <1>2
  <2>2. l \in [here -> Nat] /\ g \in [here -> Nat] BY <2>1, GrossLossType
  <2>3. b \in [Player -> Nat] BY <1>1, BetType
  <2>4. \A p \in here : b[p] = Total(w.bets[p]) BY DEF Bet
  <2> QED BY <2>1, <2>2, <2>3, <2>4, GrossLossBound
<1>6. n = Sum(l) - Sum(g) - DeducEndFee(Sum(l)) BY DEF BankerWon
<1>7. b[q] = 0 /\ Rate * Sum(b) <= w.bank.score
      /\ \A p \in Player : Rate * b[p] <= w.coin[p]
  BY <1>1
<1>8. \A p \in here \ {q} :
         c[p] = Max0(w.coin[p] + (g[p] - l[p] - DeducEndFee(g[p])))
  BY DEF Won
<1>9. c[q] = Max0(w.coin[q] + n) BY <1>1
<1>10. \A p \in Player \ (here \cup {q}) : c[p] = w.coin[p] OBVIOUS
<1>11. x \in [Player -> Nat] /\ y \in [Player -> Nat]
       /\ \A p \in Player : x[p] = w.coin[p] + w.lock[p] /\ y[p] = c[p] + w.lock[p]
  <2> HIDE DEF c, v
  <2>1. c \in [Player -> Nat] BY <1>3, <1>4 DEF Tb
  <2> QED BY <1>2, <1>4, <2>1
<1>12. Held(v) = Sum(y) /\ Held(w) = Sum(x) BY DEF Held
<1> HIDE DEF q, n, l, g, b, v, c, x, y
<1>13. Sum(l) \in Nat /\ Sum(g) \in Nat /\ Sum(g) <= Rate * Sum(b)
  BY <1>5, PartOfBets
<1>14. Rate * Sum(b) \in Int
  BY <1>5, SumNat, PlayerAssumption, Figures
<1>15. DeducEndFee(Sum(l)) \in Nat /\ DeducEndFee(Sum(l)) <= Sum(l)
  BY <1>13, FeeBound
<1>16. n \in Int /\ n <= Sum(l) - Sum(g) /\ w.coin[q] + n >= 0
  BY <1>1, <1>2, <1>6, <1>7, <1>13, <1>14, <1>15
<1>17. g[q] = 0 /\ l[q] = 0
  <2>1. Rate * b[q] = 0 BY <1>7, Figures
  <2>2. g[q] \in Nat /\ l[q] \in Nat /\ g[q] <= Rate * b[q] /\ l[q] <= Rate * b[q]
    BY <1>1, <1>5
  <2> QED BY <2>1, <2>2
<1>18. y[q] = x[q] + n
  <2>1. c[q] = w.coin[q] + n BY <1>1, <1>2, <1>9, <1>16 DEF Max0
  <2> QED BY <1>1, <1>2, <1>11, <1>16, <2>1
<1>19. ASSUME NEW p \in here \ {q}
       PROVE  y[p] + l[p] <= x[p] + g[p]
  <2>1. p \in Player /\ p \in here OBVIOUS
  <2>2. g[p] \in Nat /\ l[p] \in Nat /\ b[p] \in Nat /\ l[p] <= Rate * b[p]
    BY <1>5, <2>1
  <2>3. Rate * b[p] <= w.coin[p] /\ Rate * b[p] \in Int BY <1>7, <2>1, <2>2, Figures
  <2>4. w.coin[p] \in Nat /\ w.lock[p] \in Nat BY <1>2, <2>1
  <2>5. DeducEndFee(g[p]) \in Nat /\ DeducEndFee(g[p]) <= g[p] BY <2>2, FeeBound
  <2>6. c[p] = w.coin[p] + (g[p] - l[p] - DeducEndFee(g[p]))
    <3>1. w.coin[p] + (g[p] - l[p] - DeducEndFee(g[p])) >= 0
      BY <2>2, <2>3, <2>4, <2>5
    <3> QED BY <1>8, <2>2, <2>4, <2>5, <3>1 DEF Max0
  <2> QED BY <1>11, <2>1, <2>2, <2>4, <2>5, <2>6
<1>20. \A p \in Player \ (here \cup {q}) : y[p] <= x[p]
  BY <1>2, <1>10, <1>11
<1>21. q \in Player BY <1>1
<1>22. Sum(y) <= Sum(x)
  BY <1>5, <1>11, <1>16, <1>17, <1>18, <1>19, <1>20, <1>21, Weighed
<1> QED BY <1>12, <1>22 DEF v

-----------------------------------------------------------------------------
(* The steps.                                                              *)
LEMMA BalancedKept ==
    ASSUME IInv, Balanced, state' = state,
           state = "jetton" =>
              /\ tb'.banker = tb.banker /\ tb'.all = tb.all
              /\ \A q \in Player : Bet(tb', q) = Bet(tb, q)
    PROVE  Balanced'
<1> SUFFICES ASSUME state = "jetton"
             PROVE  /\ tb'.all = Sum([p \in Player |-> Bet(tb', p)])
                    /\ Bet(tb', tb'.banker) = 0
  BY DEF Balanced, Bet
<1>1. tb.banker \in Player BY DEF IInv, TypeOK, Tb
<1>2. [p \in Player |-> Bet(tb', p)] = [p \in Player |-> Bet(tb, p)] OBVIOUS
<1> QED BY <1>1, <1>2 DEF Balanced

(* A step that leaves the table's record alone, and does not open the bets.*)
LEMMA RecordKept ==
    ASSUME IInv, Balanced, tb' = tb, state' = state
    PROVE  Balanced' /\ Held(tb') <= Held(tb)
<1>1. tb \in Tb /\ NoRicher(tb, tb) BY IInvParts, SameWorth
<1>2. Held(tb') <= Held(tb) BY <1>1, HeldIsLess
<1>3. Balanced' BY BalancedKept
<1> QED BY <1>2, <1>3

(* What leaves with a player is a bet of nothing.                          *)
LEMMA LeaveMoney ==
    ASSUME IInv, Balanced, NEW p \in Player, CanLeaveTable(tb, p), OnLeave(p),
           state' = state
    PROVE  Balanced' /\ Held(tb') <= Held(tb)
<1>1. RemoveApplyBanker(tb, p) = tb BY DEF CanLeaveTable, RemoveApplyBanker
<1>2. tb' = [tb EXCEPT !.bets = [@ EXCEPT ![p] = NoBets]]
  BY <1>1 DEF OnLeave
<1>3. tb \in Tb BY IInvParts
<1>4. /\ tb' \in Tb /\ tb'.banker = tb.banker /\ tb'.all = tb.all
      /\ tb'.lock = tb.lock /\ tb'.coin = tb.coin
      /\ tb'.bets = [tb.bets EXCEPT ![p] = NoBets]
  BY <1>2, <1>3, NoBetsType DEF Tb
<1>5. ASSUME state = "jetton", NEW q \in Player
      PROVE  Bet(tb', q) = Bet(tb, q)
  <2>1. tb.bets \in [Player -> Bets] BY <1>3 DEF Tb
  <2>2. CASE q = p
    <3>1. Bet(tb, p) = 0
      <4>1. ~(Bet(tb, p) > 0) BY <1>5 DEF CanLeaveTable, IsSetJetton
      <4>2. Bet(tb, p) \in Nat BY <1>3, BetType
      <4> QED BY <4>1, <4>2
    <3>2. Bet(tb', p) = 0 BY <1>4, <2>1, NoBetsTotal DEF Bet
    <3> QED BY <2>2, <3>1, <3>2
  <2>3. CASE q # p
    <3>1. tb'.bets[q] = tb.bets[q] BY <1>4, <2>1, <2>3
    <3> QED BY <3>1 DEF Bet
  <2> QED BY <2>2, <2>3
<1>6. Balanced' BY <1>4, <1>5, BalancedKept
<1>7. Held(tb') <= Held(tb) BY <1>3, <1>4, SameWorth, HeldIsLess
<1> QED BY <1>6, <1>7

(* A bet is added on both sides, and is not the banker's.                  *)
LEMMA BetMoney ==
    ASSUME IInv, Balanced, NEW p \in Player, NEW b \in Bets,
           state = "jetton", p # tb.banker, tb' = AddBets(tb, p, b), state' = state
    PROVE  Balanced' /\ Held(tb') <= Held(tb)
<1>1. tb \in Tb BY IInvParts
<1>2. /\ tb' \in Tb /\ tb'.banker = tb.banker
      /\ tb'.lock = tb.lock /\ tb'.coin = tb.coin
      /\ tb'.all = tb.all + Total(b)
      /\ Bet(tb', p) = Bet(tb, p) + Total(b)
      /\ \A q \in Player \ {p} : Bet(tb', q) = Bet(tb, q)
  BY <1>1, AddBetsParts
<1>3. state = "jetton" /\ p # tb.banker OBVIOUS
<1>4. tb.banker \in Player \ {p} BY <1>3 DEF IInv, TypeOK, Tb
<1>5. Bet(tb', tb'.banker) = 0 BY <1>2, <1>3, <1>4 DEF Balanced
<1> DEFINE f == [q \in Player |-> Bet(tb, q)]
           g == [q \in Player |-> Bet(tb', q)]
<1>6. f \in [Player -> Nat] /\ g \in [Player -> Nat] BY <1>1, <1>2, BetType
<1>7. /\ g[p] = f[p] + Total(b)
      /\ \A q \in Player \ {p} : f[q] = g[q]
      /\ f[p] \in Nat
  BY <1>2, <1>6
<1>8. tb.all = Sum(f) BY <1>3 DEF Balanced
<1> HIDE DEF f, g
<1>9. Sum(f) + g[p] = Sum(g) + f[p]
  BY <1>6, <1>7, PlayerAssumption, SumChanged
<1>10. Sum(f) \in Nat /\ Sum(g) \in Nat /\ Total(b) \in Nat
  BY <1>6, PlayerAssumption, SumNat, TotalType
<1>11. tb'.all = Sum(g) BY <1>2, <1>7, <1>8, <1>9, <1>10
<1>12. Balanced' BY <1>5, <1>11 DEF Balanced, Bet, g
<1>13. Held(tb') <= Held(tb) BY <1>1, <1>2, SameWorth, HeldIsLess
<1> QED BY <1>12, <1>13

LEMMA ApplyMoney ==
    ASSUME IInv, Balanced, NEW p \in Player, p \in here, NEW n \in Nat,
           NEW a \in BOOLEAN, CanApply(tb, p, n), tb' \in Applied(tb, p, n, a),
           state' = state
    PROVE  Balanced' /\ Held(tb') <= Held(tb)
<1>1. tb \in Tb /\ Sound(tb) /\ (state = "free" => Cleared(tb) /\ Strong(tb))
  BY IInvParts
<1>2. tb' \in Tb /\ (state # "free" => Keeps(tb, tb'))
  BY <1>1, AppliedSound DEF Sound
<1>3. NoRicher(tb, tb') BY <1>1, AppliedWorth
<1>4. Held(tb') <= Held(tb) BY <1>1, <1>2, <1>3, HeldIsLess
<1>5. state = "jetton" =>
         /\ tb'.banker = tb.banker /\ tb'.all = tb.all
         /\ \A q \in Player : Bet(tb', q) = Bet(tb, q)
  BY <1>2 DEF Keeps, Bet
<1> QED BY <1>4, <1>5, BalancedKept

(* What is locked comes back to the player; the bets are left alone.       *)
LEMMA UnlockMoney ==
    ASSUME IInv, Balanced, NEW w, Sound(w), NEW p \in Player,
           tb' = RemoveApplyBanker(w, p),
           w.banker = tb.banker, w.all = tb.all, w.bets = tb.bets,
           w.coin = tb.coin, w.lock = tb.lock, state' = state
    PROVE  Balanced' /\ Held(tb') <= Held(tb)
<1>1. tb \in Tb /\ w \in Tb BY IInvParts DEF Sound
<1>2. tb' \in Tb /\ Keeps(w, tb') /\ NoRicher(w, tb')
  BY <1>1, RemoveSound, RemoveWorth DEF Sound
<1>3. NoRicher(tb, w) BY <1>1, SameWorth
<1>4. NoRicher(tb, tb') BY <1>1, <1>2, <1>3, NoRicherTransitive
<1>5. Held(tb') <= Held(tb) BY <1>1, <1>2, <1>4, HeldIsLess
<1>6. /\ tb'.banker = tb.banker /\ tb'.all = tb.all
      /\ \A q \in Player : Bet(tb', q) = Bet(tb, q)
  BY <1>2 DEF Keeps, Bet
<1> QED BY <1>5, <1>6, BalancedKept

(* A player that pays for the queue, of what it has at hand.               *)
LEMMA JumpMoney ==
    ASSUME IInv, Balanced, NEW p \in Player, OnUserJumpApplyQueue(p)
    PROVE  Balanced' /\ Held(tb') <= Held(tb)
<1>1. tb \in Tb /\ tb' \in Tb /\ state' = state
  <2>1. IInv' BY JumpStep
  <2> QED BY <2>1, IInvParts DEF IInv, TypeOK, OnUserJumpApplyQueue
<1>2. PICK s : tb' = [tb EXCEPT !.list = s, !.coin[p] = @ - JumpCost]
  BY DEF OnUserJumpApplyQueue
<1>3. /\ tb'.banker = tb.banker /\ tb'.all = tb.all /\ tb'.bets = tb.bets
      /\ tb'.lock = tb.lock /\ tb'.coin = [tb.coin EXCEPT ![p] = @ - JumpCost]
  BY <1>1, <1>2 DEF Tb
<1>4. \A q \in Player : Worth(tb', q) <= Worth(tb, q)
  <2>1. tb.coin \in [Player -> Nat] /\ tb.lock \in [Player -> Nat]
    BY <1>1 DEF Tb
  <2> QED BY <1>3, <2>1, Figures DEF Worth
<1>5. Held(tb') <= Held(tb) BY <1>1, <1>4, HeldIsLess DEF NoRicher
<1>6. \A q \in Player : Bet(tb', q) = Bet(tb, q) BY <1>3 DEF Bet
<1> QED BY <1>1, <1>3, <1>5, <1>6, BalancedKept

LEMMA MarkMoney ==
    ASSUME NEW w, Sound(w)
    PROVE  LET v == [w EXCEPT !.bank.leave = TRUE]
           IN  v \in Tb /\ v.coin = w.coin /\ v.lock = w.lock
<1> DEFINE v == [w EXCEPT !.bank.leave = TRUE]
<1>1. v \in Tb BY LeaveMark DEF Sound
<1>2. w \in Tb BY DEF Sound
<1>3. v.coin = w.coin /\ v.lock = w.lock BY <1>2 DEF Tb
<1> QED BY <1>1, <1>3

LEMMA HandlerMoney ==
    ASSUME IInv, Balanced, NEW p \in Player, Handler(p)
    PROVE  Balanced' /\ Held(tb') <= Held(tb)
<1>1. CASE EnterTable(p) BY <1>1, RecordKept DEF EnterTable
<1>2. CASE SetNetStateOn(p) BY <1>2, RecordKept DEF SetNetStateOn
<1>3. CASE LeaveTable(p) BY <1>3, LeaveMoney DEF LeaveTable
<1>4. CASE NeedRecover(p) BY <1>4, LeaveMoney DEF NeedRecover
<1>5. CASE SetNetStateOff(p)
  <2>1. state' = state BY <1>5 DEF SetNetStateOff
  <2>2. CASE CanLeaveTable(tb, p)
    <3>1. OnLeave(p) BY <1>5, <2>2 DEF SetNetStateOff
    <3> QED BY <2>1, <2>2, <3>1, LeaveMoney
  <2>3. CASE ~CanLeaveTable(tb, p)
    <3>1. tb' = tb BY <1>5, <2>3 DEF SetNetStateOff
    <3> QED BY <2>1, <3>1, RecordKept
  <2> QED BY <2>2, <2>3
<1>6. CASE OnUserPlaceJetton(p)
  <2>1. PICK a \in BetArea, n \in 1 .. MaxBet :
           /\ CanBet(tb, p, n)
           /\ tb' = AddBets(tb, p, [NoBets EXCEPT ![a] = n])
    BY <1>6 DEF OnUserPlaceJetton
  <2> DEFINE b == [NoBets EXCEPT ![a] = n]
  <2>2. n \in Nat \ {0} /\ a \in Area BY Figures, AreaAssumption
  <2>3. b \in Bets /\ Total(b) = n
    BY <2>2 DEF NoBets, Bets, Total, Area
  <2> HIDE DEF b
  <2>4. tb' = AddBets(tb, p, b) /\ state = "jetton" /\ p # tb.banker
    BY <2>1 DEF b, CanBet
  <2>5. state' = state BY <1>6 DEF OnUserPlaceJetton
  <2> QED BY <2>3, <2>4, <2>5, BetMoney
<1>7. CASE OnUserContinuousPressure(p)
  <2>1. PICK c \in [BetArea -> 0 .. MaxBet] :
           LET b == [a \in Area |-> IF a \in BetArea THEN c[a] ELSE 0]
           IN  /\ Total(b) > 0
               /\ CanBet(tb, p, Wrap(Total(b)))
               /\ tb' = AddBets(tb, p, b)
    BY <1>7 DEF OnUserContinuousPressure
  <2> DEFINE b == [a \in Area |-> IF a \in BetArea THEN c[a] ELSE 0]
  <2>2. b \in Bets
    <3>1. \A a \in BetArea : c[a] \in Nat BY Figures
    <3> QED BY <3>1 DEF Bets
  <2>3. state = "jetton" /\ p # tb.banker /\ tb' = AddBets(tb, p, b)
    BY <2>1 DEF CanBet
  <2> HIDE DEF b
  <2>4. state' = state BY <1>7 DEF OnUserContinuousPressure
  <2> QED BY <2>2, <2>3, <2>4, BetMoney
<1>8. CASE OnUserApplyBanker(p)
  <2>1. PICK n \in 1 .. Limit, a \in BOOLEAN :
           CanApply(tb, p, n) /\ tb' \in Applied(tb, p, n, a)
    BY <1>8 DEF OnUserApplyBanker
  <2>2. n \in Nat /\ p \in here /\ state' = state
    BY <1>8, Figures DEF OnUserApplyBanker, Client, Sends
  <2> QED BY <2>1, <2>2, ApplyMoney
<1>9. CASE OnUserJumpApplyQueue(p) BY <1>9, JumpMoney
<1>10. CASE OnUserCancelBanker(p) \/ OnBrcControlApplePlayer(p)
  <2>1. state' = state
    BY <1>10 DEF OnUserCancelBanker, OnBrcControlApplePlayer
  <2>2. Sound(tb) BY IInvParts
  <2>3. CASE p = tb.banker /\ state # "free"
    <3> DEFINE v == [tb EXCEPT !.bank.leave = TRUE]
    <3>1. /\ Sound(v) /\ v.banker = tb.banker /\ v.all = tb.all
          /\ v.bets = tb.bets /\ v.coin = tb.coin /\ v.lock = tb.lock
      BY <2>2, LeaveMark, MarkMoney
    <3>2. tb' = v \/ tb' = RemoveApplyBanker(v, p)
      BY <1>10, <2>3 DEF OnUserCancelBanker, OnBrcControlApplePlayer
    <3> HIDE DEF v
    <3>3. ~IsInApplyList(v, p) BY <2>3, <3>1 DEF Sound, Locks
    <3>4. RemoveApplyBanker(v, p) = v BY <3>3 DEF RemoveApplyBanker
    <3>5. tb' = RemoveApplyBanker(v, p) BY <3>2, <3>4
    <3> QED BY <2>1, <3>1, <3>5, UnlockMoney
  <2>4. CASE ~(p = tb.banker /\ state # "free")
    <3>1. tb' = RemoveApplyBanker(tb, p)
      BY <1>10, <2>4 DEF OnUserCancelBanker, OnBrcControlApplePlayer
    <3> QED BY <2>1, <2>2, <3>1, UnlockMoney
  <2> QED BY <2>3, <2>4
<1> QED BY <1>1, <1>2, <1>3, <1>4, <1>5, <1>6, <1>7, <1>8, <1>9, <1>10
        DEF Handler

(* A round starts with no bets.                                            *)
LEMMA StartMoney ==
    ASSUME IInv, StartRound
    PROVE  Balanced' /\ Held(tb') <= Held(tb)
<1>1. /\ tb \in Tb /\ Cleared(tb) /\ tb' = tb /\ tb.banker \in Player
  BY IInvParts DEF StartRound, Tb
<1> DEFINE f == [p \in Player |-> Bet(tb', p)]
<1>2. \A p \in Player : Bet(tb', p) = 0
  BY <1>1, NoBetsTotal DEF Cleared, Bet
<1>3. f \in [Player -> Nat] /\ \A p \in Player : f[p] = 0 BY <1>2
<1> HIDE DEF f
<1>4. Sum(f) = 0 BY <1>3, SumOfZeros
<1>5. tb'.all = Sum(f) /\ Bet(tb', tb'.banker) = 0
  BY <1>1, <1>2, <1>4 DEF Cleared
<1>6. Balanced' BY <1>5 DEF Balanced, Bet, f
<1>7. Held(tb') <= Held(tb) BY <1>1, SameWorth, HeldIsLess
<1> QED BY <1>6, <1>7

(* What a bettor cannot pay any more, as it has paid for the queue, the    *)
(* banker is credited all the same: hence the condition.                   *)
LEMMA EndMoney ==
    ASSUME IInv, Balanced, EndRound
    PROVE  Balanced' /\ (jumped = {} /\ overflows = 0 => Held(tb') <= Held(tb))
<1>1. state = "jetton" /\ state' = "end" BY DEF EndRound
<1>2. Balanced' BY <1>1 DEF Balanced
<1>3. ASSUME jumped = {}, overflows = 0 PROVE Held(tb') <= Held(tb)
  <2>1. PICK m \in Outcome :
           tb' = Settle(tb, m) \/ tb' = [Settle(tb, m) EXCEPT !.bank.leave = TRUE]
    BY DEF EndRound
  <2> DEFINE w == Settle(tb, m)
  <2>2. /\ Sound(tb) /\ here \subseteq Player /\ tb.banker # NoOne
        /\ tb.all = Sum([p \in Player |-> Bet(tb, p)])
        /\ Bet(tb, tb.banker) = 0
        /\ Rate * tb.all <= tb.bank.score
        /\ \A p \in Player : Rate * Bet(tb, p) <= tb.coin[p]
    BY <1>1, <1>3, IInvParts DEF IInv, Balanced, BettorCovers
  <2>3. Held(w) <= Held(tb) BY <2>2, SettleHeld
  <2>4. Sound(w) BY <2>2, SettleSound
  <2> HIDE DEF w
  <2>5. Held(tb') = Held(w)
    <3>1. CASE tb' = w BY <3>1
    <3>2. CASE tb' = [w EXCEPT !.bank.leave = TRUE]
      <4>1. tb'.coin = w.coin /\ tb'.lock = w.lock BY <2>4, <3>2, MarkMoney
      <4> QED BY <4>1 DEF Held
    <3> QED BY <2>1, <3>1, <3>2 DEF w
  <2> QED BY <2>3, <2>5
<1> QED BY <1>2, <1>3

LEMMA ChangeTurnMoney ==
    ASSUME IInv, ChangeTurn
    PROVE  Balanced' /\ Held(tb') <= Held(tb)
<1> DEFINE w == ClearTurnGameData(tb)
<1>1. tb \in Tb /\ Sound(tb) BY IInvParts
<1>2. /\ w \in Tb /\ w.banker = tb.banker /\ w.bank = tb.bank
      /\ w.list = tb.list /\ w.lock = tb.lock /\ w.coin = tb.coin
      /\ Cleared(w)
  BY <1>1, NoBetsType DEF ClearTurnGameData, Tb, Cleared
<1> HIDE DEF w
<1>3. Sound(w) BY <1>1, <1>2 DEF Sound, Locks, Seat, IsInApplyList
<1>4. tb' = ChangeBanker(w) /\ state' = "free" BY DEF ChangeTurn, w
<1>5. tb' \in Tb /\ NoRicher(w, tb')
  BY <1>2, <1>3, <1>4, ChangeBankerSound, ChangeBankerWorth DEF Sound
<1>6. NoRicher(tb, w) BY <1>1, <1>2, SameWorth
<1>7. NoRicher(tb, tb') BY <1>1, <1>2, <1>5, <1>6, NoRicherTransitive
<1>8. Held(tb') <= Held(tb) BY <1>1, <1>5, <1>7, HeldIsLess
<1>9. Balanced' BY <1>4 DEF Balanced
<1> QED BY <1>8, <1>9

LEMMA TickMoney ==
    ASSUME IInv, Balanced, OnTimeTick
    PROVE  Balanced' /\ (jumped = {} /\ overflows = 0 => Held(tb') <= Held(tb))
<1>1. CASE StartRound BY <1>1, StartMoney
<1>2. CASE EndRound BY <1>2, EndMoney
<1>3. CASE ChangeTurn BY <1>3, ChangeTurnMoney
<1>4. CASE CheckRobotApplyBanker
  BY <1>4, RecordKept DEF CheckRobotApplyBanker
<1>5. CASE OnGameStartWithoutBanker
  <2>1. /\ tb \in Tb /\ Sound(tb) /\ state = "free" /\ Cleared(tb)
        /\ tb' = ChangeBanker(tb) /\ state' = state
    BY <1>5, IInvParts DEF OnGameStartWithoutBanker, IInv
  <2>2. tb' \in Tb /\ NoRicher(tb, tb')
    BY <2>1, ChangeBankerSound, ChangeBankerWorth DEF Sound
  <2>3. Held(tb') <= Held(tb) BY <2>1, <2>2, HeldIsLess
  <2>4. Balanced' BY <2>1 DEF Balanced
  <2> QED BY <2>3, <2>4
<1>6. CASE \E r \in Robot : AskRobot(r)
  <2>1. PICK r \in Robot : AskRobot(r) BY <1>6
  <2>2. PICK n \in RobotBuyin(tb.coin[r]) :
           LET m == (n \div Chip) * Chip
           IN  IF n > 0 /\ CanApply(tb, r, m)
               THEN tb' \in Applied(tb, r, m, n >= 2 * Condition)
               ELSE tb' = tb
    BY <2>1 DEF AskRobot
  <2> DEFINE m == (n \div Chip) * Chip
             a == n >= 2 * Condition
  <2>3. tb \in Tb /\ r \in Player /\ r \in here /\ state' = state
    BY <2>1, IInvParts, Figures DEF AskRobot, IInv
  <2>4. tb.coin[r] \in Nat BY <2>3 DEF Tb
  <2>5. n \in Nat /\ m \in Nat /\ a \in BOOLEAN BY <2>4, RobotBuyinType
  <2>6. tb' = tb \/ (CanApply(tb, r, m) /\ tb' \in Applied(tb, r, m, a))
    BY <2>2
  <2> HIDE DEF m, a
  <2>7. CASE tb' = tb BY <2>3, <2>7, RecordKept
  <2>8. CASE CanApply(tb, r, m) /\ tb' \in Applied(tb, r, m, a)
    BY <2>3, <2>5, <2>8, ApplyMoney
  <2> QED BY <2>6, <2>7, <2>8
<1> QED BY <1>1, <1>2, <1>3, <1>4, <1>5, <1>6 DEF OnTimeTick

LEMMA NextMoney ==
    ASSUME IInv, Balanced, [Next]_vars
    PROVE  Balanced' /\ (jumped = {} /\ overflows = 0 => Held(tb') <= Held(tb))
<1>1. CASE \E p \in Player : Handler(p) BY <1>1, HandlerMoney
<1>2. CASE OnTimeTick BY <1>2, TickMoney
<1>3. CASE CheckRoomCanGameStart BY <1>3, RecordKept DEF CheckRoomCanGameStart
<1>4. CASE UNCHANGED vars BY <1>4, RecordKept DEF vars
<1> QED BY <1>1, <1>2, <1>3, <1>4 DEF Next

LEMMA BalancedInvariant == Spec => []Balanced
<1>1. Init => Balanced BY DEF Init, Balanced
<1>2. IInv /\ Balanced /\ [Next]_vars => Balanced' BY NextMoney
<1> QED BY <1>1, <1>2, Invariance, PTL DEF Spec

-----------------------------------------------------------------------------
(* The total by area, against which a bet is checked, is the sum of the    *)
(* bets from which the round is settled, however many come, leave, bet and *)
(* apply meanwhile (OnUserPlaceJetton, OnPlayerJoin, CanLeaveTable).       *)
THEOREM TotalsDoAgree == Spec => []TotalsAgree
<1>1. Balanced => TotalsAgree BY DEF Balanced, TotalsAgree
<1> QED BY <1>1, BalancedInvariant, PTL

(* No step makes coin out of nothing, whatever the multiples, the fees and *)
(* the balances, as long as no bettor has paid for the queue and the sum   *)
(* of no request has wrapped (CalcPlayerInfo, LockApplyScore, TakeTurns,   *)
(* CalcBankerScore).                                                       *)
THEOREM NothingIsMinted == Spec => NothingMinted
<1>1. IInv /\ Balanced /\ [Next]_vars =>
        [jumped = {} /\ overflows = 0 => Held(tb') <= Held(tb)]_vars
  BY NextMoney
<1> QED BY <1>1, Invariance, BalancedInvariant, PTL DEF Spec, NothingMinted

=============================================================================
