-------------------------- MODULE BankerTableProofs --------------------------
(***************************************************************************)
(* Proofs about BankerTable, for any players, robots, balances and         *)
(* figures the assumptions of that module allow.                           *)
(*                                                                         *)
(* The member functions the handlers are made of take a table's record to  *)
(* a record, so each has a lemma: from a record that is Sound it leaves a  *)
(* record that is Sound.  The steps follow from those.                     *)
(***************************************************************************)
EXTENDS BankerTable, SumsProofs, SequenceTheorems

(* The lock and the seat, said of a record.                                *)
NoDup(s) == \A i, j \in DOMAIN s : s[i] = s[j] => i = j

Locks(w) ==
    /\ NoDup(w.list)
    /\ \A p \in Player :
          IF IsInApplyList(w, p)
          THEN p \in here /\ p # w.banker /\ w.lock[p] \in Condition .. Limit
          ELSE w.lock[p] = 0

Seat(w) ==
    w.banker # NoOne =>
        w.banker \in here /\ w.bank.score <= w.coin[w.banker]

Sound(w) == w \in Tb /\ Locks(w) /\ Seat(w)

Cleared(w) == w.all = 0 /\ w.bets = [p \in Player |-> NoBets]

Strong(w) == w.banker # NoOne => w.bank.score >= Condition

(* The inductive invariant.  Between two rounds there are no bets and the  *)
(* banker's score is not below the condition: that is why a round starts   *)
(* with its bets covered.  The cover is lost for good with a sum that has  *)
(* wrapped; the lock and the seat are not.  While the robots are asked     *)
(* nobody leaves.                                                          *)
IInv ==
    /\ TypeOK
    /\ Locks(tb)
    /\ Seat(tb)
    /\ state = "free" => Cleared(tb) /\ Strong(tb)
    /\ state = "jetton" =>
          /\ tb.banker # NoOne
          /\ overflows = 0 => Rate * tb.all <= tb.bank.score
    /\ BettorCovers
    /\ asking.left \subseteq here
    /\ IF asking.on THEN state = "free" ELSE asking.left = {}

-----------------------------------------------------------------------------
(* Amounts.                                                                *)
LEMMA Figures ==
    /\ Condition \in Nat \ {0} /\ Limit \in Nat /\ Chip \in Nat \ {0}
    /\ Rate \in Nat \ {0} /\ FeeRate \in 0 .. 100
    /\ EnterMin \in Nat /\ JettonMin \in Nat /\ JumpCost \in Nat
    /\ MaxBet \in Nat /\ EarlyWin \in Nat
    /\ RobotApplySize \in Nat /\ MinRounds \in Nat
    /\ Robot \subseteq Player /\ NoOne \notin Player
  BY ConditionAssumption, RateAssumption, CostAssumption, PlayerAssumption

(* What Rate divides out may be multiplied by it again.                    *)
LEMMA DivBound ==
    ASSUME NEW x \in Int, NEW n \in Int, n <= x \div Rate
    PROVE  Rate * n <= x
<1>1. Rate \in Int /\ Rate > 0 BY Figures
<1> DEFINE q == x \div Rate
<1>2. q \in Int /\ Rate * q <= x /\ n <= q BY <1>1
<1> HIDE DEF q
<1>3. q - n \in Nat BY <1>2
<1>4. Rate * (q - n) \in Nat BY <1>1, <1>3
<1>5. Rate * (q - n) = Rate * q - Rate * n BY <1>1, <1>2
<1>6. Rate * n \in Int /\ Rate * q \in Int BY <1>1, <1>2
<1> QED BY <1>2, <1>4, <1>5, <1>6

LEMMA Max0Type == \A n \in Int : Max0(n) \in Nat /\ Max0(n) >= n
  BY DEF Max0

LEMMA FeeType == \A n \in Int : DeducEndFee(n) \in Int
<1> SUFFICES ASSUME NEW n \in Int PROVE DeducEndFee(n) \in Int
  OBVIOUS
<1>1. Max0(n) \in Int /\ FeeRate \in Int BY Max0Type, Figures
<1>2. Max0(n) * FeeRate \in Int BY <1>1
<1> QED BY <1>2 DEF DeducEndFee

-----------------------------------------------------------------------------
(* The list.  First for indices alone, then for the sequences of the code. *)
Member(s, q) == \E j \in DOMAIN s : s[j] = q

LEMMA Dropped ==
    ASSUME NEW n \in Nat, NEW i \in 1 .. n, NEW s, NEW t,
           DOMAIN s = 1 .. n, DOMAIN t = 1 .. n - 1, NoDup(s),
           \A j \in 1 .. n - 1 : t[j] = IF j < i THEN s[j] ELSE s[j + 1]
    PROVE  /\ NoDup(t)
           /\ \A q : Member(t, q) <=> (q # s[i] /\ Member(s, q))
<1>1. ASSUME NEW j \in 1 .. n - 1, NEW k \in 1 .. n - 1, t[j] = t[k]
      PROVE  j = k
  <2>1. CASE j < i /\ k < i BY <1>1, <2>1 DEF NoDup
  <2>2. CASE j < i /\ k >= i
    <3>1. j \in DOMAIN s /\ k + 1 \in DOMAIN s /\ s[j] = s[k + 1]
      BY <1>1, <2>2
    <3>2. j = k + 1 BY <3>1 DEF NoDup
    <3> QED BY <3>2, <2>2
  <2>3. CASE j >= i /\ k < i
    <3>1. j + 1 \in DOMAIN s /\ k \in DOMAIN s /\ s[j + 1] = s[k]
      BY <1>1, <2>3
    <3>2. j + 1 = k BY <3>1 DEF NoDup
    <3> QED BY <3>2, <2>3
  <2>4. CASE j >= i /\ k >= i
    <3>1. j + 1 \in DOMAIN s /\ k + 1 \in DOMAIN s /\ s[j + 1] = s[k + 1]
      BY <1>1, <2>4
    <3>2. j + 1 = k + 1 BY <3>1 DEF NoDup
    <3> QED BY <3>2
  <2> QED BY <2>1, <2>2, <2>3, <2>4
<1>2. NoDup(t) BY <1>1 DEF NoDup
<1>3. ASSUME NEW q PROVE Member(t, q) <=> (q # s[i] /\ Member(s, q))
  <2>1. ASSUME NEW j \in 1 .. n - 1, t[j] = q
        PROVE  q # s[i] /\ Member(s, q)
    <3>1. CASE j < i BY <3>1, <2>1 DEF NoDup, Member
    <3>2. CASE j >= i
      <4>1. j + 1 \in DOMAIN s /\ s[j + 1] = q /\ j + 1 # i BY <3>2, <2>1
      <4> QED BY <4>1 DEF NoDup, Member
    <3> QED BY <3>1, <3>2
  <2>2. ASSUME NEW j \in 1 .. n, s[j] = q, q # s[i] PROVE Member(t, q)
    <3>1. CASE j < i BY <3>1, <2>2 DEF Member
    <3>2. CASE j > i
      <4>1. j - 1 \in DOMAIN t /\ t[j - 1] = s[j] BY <3>2
      <4> QED BY <4>1, <2>2 DEF Member
    <3> QED BY <3>1, <3>2, <2>2
  <2> QED BY <2>1, <2>2 DEF Member
<1> QED BY <1>2, <1>3

IsShift(t, s, n, i) ==
    /\ DOMAIN s = 1 .. n /\ DOMAIN t = 1 .. n - i
    /\ \A j \in 1 .. n - i : t[j] = s[i + j]

LEMMA Shifted ==
    ASSUME NEW n \in Nat, NEW i \in 1 .. n, NEW s, NEW t,
           NoDup(s), IsShift(t, s, n, i)
    PROVE  /\ NoDup(t)
           /\ \A q : Member(t, q) <=> \E j \in DOMAIN s : i < j /\ s[j] = q
<1> USE DEF IsShift
<1>1. ASSUME NEW j \in 1 .. n - i, NEW k \in 1 .. n - i, t[j] = t[k]
      PROVE  j = k
  <2>1. i + j \in DOMAIN s /\ i + k \in DOMAIN s /\ s[i + j] = s[i + k]
    BY <1>1
  <2>2. i + j = i + k BY <2>1 DEF NoDup
  <2> QED BY <2>2
<1>2. NoDup(t) BY <1>1 DEF NoDup
<1>3. ASSUME NEW q
      PROVE  Member(t, q) <=> \E j \in DOMAIN s : i < j /\ s[j] = q
  <2>1. ASSUME NEW j \in 1 .. n - i, t[j] = q
        PROVE  \E k \in DOMAIN s : i < k /\ s[k] = q
    <3>1. i + j \in DOMAIN s /\ i < i + j /\ s[i + j] = q BY <2>1
    <3> QED BY <3>1
  <2>2. ASSUME NEW j \in 1 .. n, i < j, s[j] = q PROVE Member(t, q)
    <3>1. j - i \in DOMAIN t /\ t[j - i] = s[i + (j - i)] BY <2>2
    <3>2. i + (j - i) = j OBVIOUS
    <3> QED BY <3>1, <3>2, <2>2 DEF Member
  <2> QED BY <2>1, <2>2 DEF Member
<1> QED BY <1>2, <1>3

IsPut(t, p, s, n) ==
    /\ DOMAIN s = 1 .. n /\ DOMAIN t = 1 .. n + 1
    /\ t[1] = p /\ \A j \in 1 .. n : t[j + 1] = s[j]

LEMMA Put ==
    ASSUME NEW n \in Nat, NEW s, NEW t, NEW p,
           NoDup(s), ~Member(s, p), IsPut(t, p, s, n)
    PROVE  /\ NoDup(t)
           /\ \A q : Member(t, q) <=> (q = p \/ Member(s, q))
<1> USE DEF IsPut
<1>1. ASSUME NEW j \in 1 .. n + 1
      PROVE  j = 1 \/ (j - 1 \in DOMAIN s /\ t[j] = s[j - 1])
  <2>1. CASE j = 1 BY <2>1
  <2>2. CASE j # 1
    <3>1. j - 1 \in 1 .. n /\ (j - 1) + 1 = j BY <2>2
    <3> QED BY <3>1
  <2> QED BY <2>1, <2>2
<1>2. ASSUME NEW j \in 1 .. n + 1, NEW k \in 1 .. n + 1, t[j] = t[k]
      PROVE  j = k
  <2>1. CASE j = 1 /\ k = 1 BY <2>1
  <2>2. CASE j = 1 /\ k # 1 BY <2>2, <1>1, <1>2 DEF Member
  <2>3. CASE j # 1 /\ k = 1 BY <2>3, <1>1, <1>2 DEF Member
  <2>4. CASE j # 1 /\ k # 1
    <3>1. /\ j - 1 \in DOMAIN s /\ k - 1 \in DOMAIN s
          /\ t[j] = s[j - 1] /\ t[k] = s[k - 1]
      BY <2>4, <1>1
    <3>2. s[j - 1] = s[k - 1] BY <3>1, <1>2
    <3>3. j - 1 = k - 1 BY <3>1, <3>2 DEF NoDup
    <3> QED BY <3>3
  <2> QED BY <2>1, <2>2, <2>3, <2>4
<1>3. NoDup(t) BY <1>2 DEF NoDup
<1>4. ASSUME NEW q PROVE Member(t, q) <=> (q = p \/ Member(s, q))
  <2>1. ASSUME NEW j \in 1 .. n + 1, t[j] = q PROVE q = p \/ Member(s, q)
    BY <2>1, <1>1 DEF Member
  <2>2. p = t[1] /\ 1 \in DOMAIN t OBVIOUS
  <2>3. ASSUME NEW j \in 1 .. n, s[j] = q PROVE Member(t, q)
    <3>1. j + 1 \in DOMAIN t /\ t[j + 1] = q BY <2>3
    <3> QED BY <3>1 DEF Member
  <2> QED BY <2>1, <2>2, <2>3 DEF Member
<1> QED BY <1>3, <1>4

LEMMA Added ==
    ASSUME NEW n \in Nat, NEW s, NEW t, NEW p,
           DOMAIN s = 1 .. n, DOMAIN t = 1 .. n + 1, NoDup(s), ~Member(s, p),
           t[n + 1] = p, \A j \in 1 .. n : t[j] = s[j]
    PROVE  /\ NoDup(t)
           /\ \A q : Member(t, q) <=> (q = p \/ Member(s, q))
<1>1. \A j \in 1 .. n + 1 : j = n + 1 \/ j \in 1 .. n OBVIOUS
<1>2. \A j \in 1 .. n : j \in 1 .. n + 1 /\ j # n + 1 OBVIOUS
<1>3. n + 1 \in 1 .. n + 1 OBVIOUS
<1>4. NoDup(t)
  <2> SUFFICES ASSUME NEW j \in 1 .. n + 1, NEW k \in 1 .. n + 1, t[j] = t[k]
               PROVE  j = k
    BY DEF NoDup
  <2>1. CASE j = n + 1 /\ k = n + 1 BY <2>1
  <2>2. CASE j = n + 1 /\ k \in 1 .. n BY <2>2 DEF Member
  <2>3. CASE j \in 1 .. n /\ k = n + 1 BY <2>3 DEF Member
  <2>4. CASE j \in 1 .. n /\ k \in 1 .. n BY <2>4 DEF NoDup
  <2> QED BY <1>1, <2>1, <2>2, <2>3, <2>4
<1>5. \A q : Member(t, q) <=> (q = p \/ Member(s, q))
  BY <1>1, <1>2, <1>3 DEF Member
<1> QED BY <1>4, <1>5

LEMMA SeqFacts ==
    ASSUME NEW s \in Seq(Player)
    PROVE  /\ Len(s) \in Nat /\ DOMAIN s = 1 .. Len(s)
           /\ \A j \in 1 .. Len(s) : s[j] \in Player
  BY LenProperties, ElementOfSeq

LEMMA Sliced ==
    ASSUME NEW s \in Seq(Player), NEW m \in Nat \ {0}, NEW n \in Nat,
           n <= Len(s), m <= n + 1
    PROVE  /\ SubSeq(s, m, n) \in Seq(Player)
           /\ Len(SubSeq(s, m, n)) = n - m + 1
           /\ \A j \in 1 .. n - m + 1 : SubSeq(s, m, n)[j] = s[m + j - 1]
<1>1. \A i \in m .. n : s[i] \in Player BY SeqFacts
<1>2. /\ SubSeq(s, m, n) \in Seq(Player)
      /\ Len(SubSeq(s, m, n)) = IF m <= n THEN n - m + 1 ELSE 0
      /\ \A j \in 1 .. n - m + 1 : SubSeq(s, m, n)[j] = s[m + j - 1]
  BY <1>1, SubSeqProperties
<1> QED BY <1>2

LEMMA Joined ==
    ASSUME NEW a \in Seq(Player), NEW b \in Seq(Player)
    PROVE  /\ a \o b \in Seq(Player)
           /\ DOMAIN (a \o b) = 1 .. Len(a) + Len(b)
           /\ \A j \in 1 .. Len(a) : (a \o b)[j] = a[j]
           /\ \A j \in 1 .. Len(b) : (a \o b)[Len(a) + j] = b[j]
<1>1. Len(a) \in Nat /\ Len(b) \in Nat BY SeqFacts
<1> DEFINE t == a \o b
<1>2. /\ t \in Seq(Player) /\ Len(t) = Len(a) + Len(b)
      /\ \A j \in 1 .. Len(a) + Len(b) :
            t[j] = IF j <= Len(a) THEN a[j] ELSE b[j - Len(a)]
  BY ConcatProperties
<1>3. DOMAIN t = 1 .. Len(t) BY <1>2, SeqFacts
<1> HIDE DEF t
<1>4. \A j \in 1 .. Len(a) : t[j] = a[j] BY <1>1, <1>2
<1>5. ASSUME NEW j \in 1 .. Len(b) PROVE t[Len(a) + j] = b[j]
  <2>1. Len(a) + j \in 1 .. Len(a) + Len(b) /\ ~(Len(a) + j <= Len(a))
        /\ Len(a) + j - Len(a) = j
    BY <1>1
  <2> QED BY <2>1, <1>2
<1> QED BY <1>2, <1>3, <1>4, <1>5 DEF t

LEMMA RemoveAt ==
    ASSUME NEW s \in Seq(Player), NoDup(s), NEW i \in DOMAIN s
    PROVE  LET t == SubSeq(s, 1, i - 1) \o SubSeq(s, i + 1, Len(s))
           IN  /\ t \in Seq(Player)
               /\ NoDup(t)
               /\ \A q : Member(t, q) <=> (q # s[i] /\ Member(s, q))
<1> DEFINE n == Len(s)
           a == SubSeq(s, 1, i - 1)
           b == SubSeq(s, i + 1, n)
           t == a \o b
<1>1. n \in Nat /\ DOMAIN s = 1 .. n /\ i \in 1 .. n BY SeqFacts
<1>2. /\ a \in Seq(Player) /\ Len(a) = i - 1
      /\ \A j \in 1 .. i - 1 : a[j] = s[j]
  <2>1. i - 1 \in Nat /\ i - 1 <= Len(s) /\ 1 <= i - 1 + 1 BY <1>1
  <2>2. /\ a \in Seq(Player)
        /\ Len(a) = (i - 1) - 1 + 1
        /\ \A j \in 1 .. (i - 1) - 1 + 1 : a[j] = s[1 + j - 1]
    BY <2>1, Sliced
  <2> HIDE DEF a
  <2> QED BY <1>1, <2>2
<1>3. /\ b \in Seq(Player) /\ Len(b) = n - i
      /\ \A j \in 1 .. n - i : b[j] = s[i + j]
  <2>1. i + 1 \in Nat \ {0} /\ i + 1 <= n + 1 BY <1>1
  <2>2. /\ b \in Seq(Player)
        /\ Len(b) = n - (i + 1) + 1
        /\ \A j \in 1 .. n - (i + 1) + 1 : b[j] = s[(i + 1) + j - 1]
    BY <1>1, <2>1, Sliced
  <2> HIDE DEF b, n
  <2>3. \A j \in 1 .. n - i : (i + 1) + j - 1 = i + j BY <1>1
  <2> QED BY <1>1, <2>2, <2>3
<1> HIDE DEF a, b, n
<1>4. /\ t \in Seq(Player) /\ DOMAIN t = 1 .. Len(a) + Len(b)
      /\ \A j \in 1 .. Len(a) : t[j] = a[j]
      /\ \A j \in 1 .. Len(b) : t[Len(a) + j] = b[j]
  BY <1>2, <1>3, Joined
<1> HIDE DEF t
<1>5. DOMAIN t = 1 .. n - 1 BY <1>1, <1>2, <1>3, <1>4
<1>6. ASSUME NEW j \in 1 .. n - 1
      PROVE  t[j] = IF j < i THEN s[j] ELSE s[j + 1]
  <2>1. CASE j < i BY <2>1, <1>1, <1>2, <1>4
  <2>2. CASE j >= i
    <3>1. j - i + 1 \in 1 .. n - i /\ (i - 1) + (j - i + 1) = j
          /\ i + (j - i + 1) = j + 1
      BY <1>1, <2>2
    <3>2. t[Len(a) + (j - i + 1)] = b[j - i + 1] BY <3>1, <1>3, <1>4
    <3>3. b[j - i + 1] = s[i + (j - i + 1)] BY <3>1, <1>3
    <3>4. t[j] = s[j + 1] BY <3>1, <3>2, <3>3, <1>2
    <3> QED BY <3>4, <2>2, <1>1
  <2> QED BY <1>1, <2>1, <2>2
<1>7. NoDup(t) /\ \A q : Member(t, q) <=> (q # s[i] /\ Member(s, q))
  BY <1>1, <1>5, <1>6, Dropped
<1> QED BY <1>4, <1>7 DEF t, a, b, n

LEMMA Suffix ==
    ASSUME NEW s \in Seq(Player), NoDup(s), NEW i \in DOMAIN s
    PROVE  LET t == SubSeq(s, i + 1, Len(s))
           IN  /\ t \in Seq(Player)
               /\ NoDup(t)
               /\ \A q : Member(t, q) <=> \E j \in DOMAIN s : i < j /\ s[j] = q
<1> DEFINE n == Len(s)
           t == SubSeq(s, i + 1, n)
<1>1. n \in Nat /\ DOMAIN s = 1 .. n /\ i \in 1 .. n BY SeqFacts
<1>2. i + 1 \in Nat \ {0} /\ i + 1 <= n + 1 BY <1>1
<1>3. /\ t \in Seq(Player)
      /\ Len(t) = n - (i + 1) + 1
      /\ \A j \in 1 .. n - (i + 1) + 1 : t[j] = s[(i + 1) + j - 1]
  BY <1>1, <1>2, Sliced
<1>4. DOMAIN t = 1 .. Len(t) BY <1>3, SeqFacts
<1> HIDE DEF t, n
<1>5. \A j \in 1 .. n - i : (i + 1) + j - 1 = i + j BY <1>1
<1>6. IsShift(t, s, n, i) BY <1>1, <1>3, <1>4, <1>5 DEF IsShift
<1>7. NoDup(t) /\ \A q : Member(t, q) <=> \E j \in DOMAIN s : i < j /\ s[j] = q
  BY <1>1, <1>6, Shifted
<1> QED BY <1>3, <1>7 DEF t, n

LEMMA Prefixed ==
    ASSUME NEW s \in Seq(Player), NoDup(s), NEW p \in Player, ~Member(s, p)
    PROVE  LET t == <<p>> \o s
           IN  /\ t \in Seq(Player)
               /\ NoDup(t)
               /\ \A q : Member(t, q) <=> (q = p \/ Member(s, q))
<1> DEFINE n == Len(s)
           a == <<p>>
           t == a \o s
<1>1. n \in Nat /\ DOMAIN s = 1 .. n BY SeqFacts
<1>2. a \in Seq(Player) /\ Len(a) = 1 /\ a[1] = p OBVIOUS
<1> HIDE DEF a, n
<1>3. /\ t \in Seq(Player) /\ DOMAIN t = 1 .. Len(a) + Len(s)
      /\ \A j \in 1 .. Len(a) : t[j] = a[j]
      /\ \A j \in 1 .. Len(s) : t[Len(a) + j] = s[j]
  BY <1>2, Joined
<1> HIDE DEF t
<1>4. DOMAIN t = 1 .. n + 1 /\ t[1] = p BY <1>1, <1>2, <1>3 DEF n
<1>5. \A j \in 1 .. n : t[j + 1] = s[j]
  <2>1. \A j \in 1 .. n : 1 + j = j + 1 BY <1>1
  <2> QED BY <2>1, <1>2, <1>3 DEF n
<1>6. IsPut(t, p, s, n) BY <1>1, <1>4, <1>5 DEF IsPut
<1>7. NoDup(t) /\ \A q : Member(t, q) <=> (q = p \/ Member(s, q))
  BY <1>1, <1>6, Put
<1> QED BY <1>3, <1>7 DEF t, a

LEMMA Appended ==
    ASSUME NEW s \in Seq(Player), NoDup(s), NEW p \in Player, ~Member(s, p)
    PROVE  LET t == Append(s, p)
           IN  /\ t \in Seq(Player)
               /\ NoDup(t)
               /\ \A q : Member(t, q) <=> (q = p \/ Member(s, q))
<1> DEFINE n == Len(s)
           t == Append(s, p)
<1>1. n \in Nat /\ DOMAIN s = 1 .. n BY SeqFacts
<1>2. /\ t \in Seq(Player) /\ Len(t) = n + 1
      /\ \A j \in 1 .. n : t[j] = s[j]
      /\ t[n + 1] = p
  BY AppendProperties
<1>3. DOMAIN t = 1 .. n + 1 BY <1>2, SeqFacts
<1> HIDE DEF t, n
<1>4. NoDup(t) /\ \A q : Member(t, q) <=> (q = p \/ Member(s, q))
  BY <1>1, <1>2, <1>3, Added
<1> QED BY <1>2, <1>4 DEF t, n

-----------------------------------------------------------------------------
(* The member functions, in the order of the module.                       *)

(* What v keeps of w: all but the list, the locks and the coin.            *)
Keeps(w, v) ==
    v.banker = w.banker /\ v.bank = w.bank /\ v.all = w.all /\ v.bets = w.bets

LEMMA InList ==
    \A w, p : IsInApplyList(w, p) <=> Member(w.list, p)
  BY DEF IsInApplyList, Member

LEMMA UnlockParts ==
    ASSUME NEW w \in Tb, NEW out \in SUBSET Player
    PROVE  LET v == Unlock(w, out)
           IN  /\ v \in Tb /\ Keeps(w, v) /\ v.list = w.list
               /\ \A p \in out : v.lock[p] = 0 /\ v.coin[p] >= w.coin[p]
               /\ \A p \in Player \ out :
                     v.lock[p] = w.lock[p] /\ v.coin[p] = w.coin[p]
<1> DEFINE v == Unlock(w, out)
<1>1. /\ w.coin \in [Player -> Nat] /\ w.lock \in [Player -> Nat]
      /\ w.auto \subseteq Player
  BY DEF Tb
<1>2. v = [w EXCEPT !.coin = v.coin, !.lock = v.lock, !.auto = v.auto]
  BY DEF Unlock, Tb
<1>3. /\ v.coin = [p \in Player |->
                    IF p \in out THEN w.coin[p] + w.lock[p] ELSE w.coin[p]]
      /\ v.lock = [p \in Player |-> IF p \in out THEN 0 ELSE w.lock[p]]
      /\ v.auto = w.auto \ out
  BY DEF Unlock, Tb
<1>4. /\ v.coin \in [Player -> Nat] /\ v.lock \in [Player -> Nat]
      /\ v.auto \subseteq Player
  BY <1>1, <1>3
<1> HIDE DEF v
<1>5. v \in Tb /\ Keeps(w, v) /\ v.list = w.list
  BY <1>2, <1>4 DEF Tb, Keeps
<1> QED BY <1>1, <1>3, <1>5 DEF v

(* Another list, of the same sort and no more than those of w without out, *)
(* put into a record whose locks for out are given back.                   *)
LEMMA WithList ==
    ASSUME NEW v \in Tb, NEW s \in Seq(Player)
    PROVE  /\ [v EXCEPT !.list = s] \in Tb
           /\ [v EXCEPT !.list = s].list = s
           /\ [v EXCEPT !.list = s].coin = v.coin
           /\ [v EXCEPT !.list = s].lock = v.lock
           /\ Keeps(v, [v EXCEPT !.list = s])
  BY DEF Tb, Keeps

LEMMA UnlockSound ==
    ASSUME NEW w, Sound(w), NEW out \in SUBSET Player, NEW s \in Seq(Player),
           NoDup(s),
           \A p \in Player : Member(s, p) <=> (Member(w.list, p) /\ p \notin out)
    PROVE  LET v == [Unlock(w, out) EXCEPT !.list = s]
           IN  /\ Sound(v) /\ Keeps(w, v) /\ v.list = s
               /\ \A p \in Player : v.coin[p] >= w.coin[p]
               /\ \A p \in Player \ out : v.coin[p] = w.coin[p]
<1> DEFINE u == Unlock(w, out)
           v == [u EXCEPT !.list = s]
<1>1. w \in Tb /\ w.coin \in [Player -> Nat] BY DEF Sound, Tb
<1>2. /\ u \in Tb /\ Keeps(w, u) /\ u.list = w.list
      /\ \A p \in out : u.lock[p] = 0 /\ u.coin[p] >= w.coin[p]
      /\ \A p \in Player \ out :
            u.lock[p] = w.lock[p] /\ u.coin[p] = w.coin[p]
  BY <1>1, UnlockParts
<1> HIDE DEF u
<1>3. /\ v \in Tb /\ v.list = s /\ v.coin = u.coin /\ v.lock = u.lock
      /\ Keeps(u, v)
  BY <1>2, WithList
<1> HIDE DEF v
<1>4. Keeps(w, v) BY <1>2, <1>3 DEF Keeps
<1>5. \A p \in Player : v.coin[p] >= w.coin[p] BY <1>1, <1>2, <1>3
<1>6. \A p \in Player \ out : v.coin[p] = w.coin[p] BY <1>2, <1>3
<1>7. Locks(v)
  <2>1. NoDup(v.list) BY <1>3
  <2>2. ASSUME NEW p \in Player
        PROVE  IF IsInApplyList(v, p)
               THEN p \in here /\ p # v.banker /\ v.lock[p] \in Condition .. Limit
               ELSE v.lock[p] = 0
    <3>1. IsInApplyList(v, p) <=> (IsInApplyList(w, p) /\ p \notin out)
      BY <1>3, InList
    <3> QED BY <3>1, <1>2, <1>3, <1>4 DEF Sound, Locks, Keeps
  <2> QED BY <2>1, <2>2 DEF Locks
<1>8. Seat(v)
  <2> SUFFICES ASSUME v.banker # NoOne
               PROVE  v.banker \in here /\ v.bank.score <= v.coin[v.banker]
    BY DEF Seat
  <2>1. /\ w.banker # NoOne /\ v.banker = w.banker /\ v.bank = w.bank
    BY <1>4 DEF Keeps
  <2>2. w.banker \in here /\ w.bank.score <= w.coin[w.banker]
    BY <2>1 DEF Sound, Seat
  <2>3. w.banker \in Player /\ w.bank.score \in Int
    BY <1>1, <2>1 DEF Tb, Bank
  <2>4. v.coin \in [Player -> Nat] BY <1>3 DEF Tb
  <2> QED BY <1>1, <1>5, <2>1, <2>2, <2>3, <2>4
<1>9. Sound(v) BY <1>3, <1>7, <1>8 DEF Sound
<1> QED BY <1>3, <1>4, <1>5, <1>6, <1>9 DEF u, v

LEMMA RemoveSound ==
    ASSUME NEW w, Sound(w), NEW p \in Player
    PROVE  LET v == RemoveApplyBanker(w, p)
           IN  /\ Sound(v) /\ Keeps(w, v)
               /\ \A q \in Player : v.coin[q] >= w.coin[q]
               /\ ~IsInApplyList(w, p) => v = w
<1> DEFINE v == RemoveApplyBanker(w, p)
<1>1. w \in Tb /\ w.coin \in [Player -> Nat] /\ w.list \in Seq(Player)
  BY DEF Sound, Tb
<1>2. CASE ~IsInApplyList(w, p)
  <2>1. v = w BY <1>2 DEF RemoveApplyBanker
  <2> QED BY <1>1, <2>1 DEF Keeps
<1>3. CASE IsInApplyList(w, p)
  <2> DEFINE i == CHOOSE i \in DOMAIN w.list : w.list[i] = p
             s == SubSeq(w.list, 1, i - 1) \o SubSeq(w.list, i + 1, Len(w.list))
  <2>1. i \in DOMAIN w.list /\ w.list[i] = p BY <1>3 DEF IsInApplyList
  <2>2. NoDup(w.list) BY DEF Sound, Locks
  <2>3. v = [Unlock(w, {p}) EXCEPT !.list = s]
    <3>1. Unlock(w, {p}).list = w.list BY <1>1 DEF Unlock, Tb
    <3> QED BY <1>3, <3>1 DEF RemoveApplyBanker
  <2> HIDE DEF i
  <2>4. /\ s \in Seq(Player) /\ NoDup(s)
        /\ \A q : Member(s, q) <=> (q # w.list[i] /\ Member(w.list, q))
    BY <1>1, <2>1, <2>2, RemoveAt
  <2> HIDE DEF s, v
  <2>5. \A q \in Player : Member(s, q) <=> (Member(w.list, q) /\ q \notin {p})
    BY <2>1, <2>4
  <2>6. /\ Sound(v) /\ Keeps(w, v)
        /\ \A q \in Player : v.coin[q] >= w.coin[q]
    <3>1. {p} \in SUBSET Player OBVIOUS
    <3> QED BY <2>3, <2>4, <2>5, <3>1, UnlockSound
  <2> QED BY <1>3, <2>6 DEF v
<1> QED BY <1>2, <1>3

(* There is a first one in the list that is eligible, if any is.           *)
LEMMA FirstExists ==
    ASSUME NEW w \in Tb, ~ \A i \in DOMAIN w.list : ~Eligible(w, i)
    PROVE  /\ First(w) \in DOMAIN w.list
           /\ Eligible(w, First(w))
<1> DEFINE T == {i \in DOMAIN w.list : Eligible(w, i)}
<1>1. w.list \in Seq(Player) BY DEF Tb
<1>2. DOMAIN w.list = 1 .. Len(w.list) /\ Len(w.list) \in Nat BY <1>1, SeqFacts
<1>3. T \subseteq Nat /\ T # {} BY <1>2
<1>4. PICK i \in T : \A j \in T : ~(<<j, i>> \in OpToRel(<, Nat))
  BY <1>3, NatLessThanWellFounded, WFMin
<1>5. \A j \in T : ~(j < i)
  BY <1>3, <1>4 DEF OpToRel
<1>6. i \in DOMAIN w.list /\ Eligible(w, i)
      /\ \A j \in 1 .. i - 1 : ~Eligible(w, j)
  BY <1>2, <1>5
<1> QED BY <1>6 DEF First

Taken(n, a) == [score |-> n, buyin |-> n, init |-> n, auto |-> a,
                leave |-> FALSE, time |-> 0, win |-> 0]

LEMMA BankType ==
    ASSUME NEW n \in Int, NEW a \in BOOLEAN
    PROVE  Taken(n, a) \in Bank /\ Taken(n, a).score = n
  BY DEF Taken, Bank

LEMMA TakeTurnsSound ==
    ASSUME NEW w, Sound(w), Cleared(w), w.banker = NoOne
    PROVE  /\ Sound(TakeTurns(w)) /\ Cleared(TakeTurns(w)) /\ Strong(TakeTurns(w))
<1> DEFINE v == TakeTurns(w)
<1>1. /\ w \in Tb /\ w.coin \in [Player -> Nat] /\ w.lock \in [Player -> Nat]
      /\ w.list \in Seq(Player) /\ NoDup(w.list)
  BY DEF Sound, Tb, Locks
<1>2. /\ DOMAIN w.list = 1 .. Len(w.list) /\ Len(w.list) \in Nat
      /\ \A i \in DOMAIN w.list : w.list[i] \in Player
  BY <1>1, SeqFacts
<1>3. CASE state # "free"
  BY <1>3 DEF TakeTurns, Strong
<1>4. CASE state = "free" /\ \A i \in DOMAIN w.list : ~Eligible(w, i)
  <2> DEFINE out == Before(w, Len(w.list))
             s == <<>>
  <2>1. v = [Unlock(w, out) EXCEPT !.list = s] BY <1>4 DEF TakeTurns
  <2>2. out \in SUBSET Player BY <1>2 DEF Before
  <2>3. s \in Seq(Player) /\ NoDup(s) BY EmptySeq DEF NoDup
  <2>4. \A p \in Player : Member(s, p) <=> (Member(w.list, p) /\ p \notin out)
    BY <1>2 DEF Before, Member
  <2> HIDE DEF s, out, v
  <2>5. Sound(v) /\ Keeps(w, v)
    BY <2>1, <2>2, <2>3, <2>4, UnlockSound
  <2> QED BY <2>5 DEF Cleared, Strong, Keeps, v
<1>5. CASE state = "free" /\ ~ \A i \in DOMAIN w.list : ~Eligible(w, i)
  <2> DEFINE i == First(w)
             p == w.list[i]
             n == w.lock[p]
             out == Before(w, i)
             s == SubSeq(w.list, i + 1, Len(w.list))
             u == [Unlock(w, out) EXCEPT !.list = s]
             b == Taken(n, p \in w.auto)
  <2>1. i \in DOMAIN w.list /\ Eligible(w, i) BY <1>1, <1>5, FirstExists
  <2>2. p \in Player /\ n \in Nat /\ n >= Condition
    BY <1>1, <1>2, <2>1 DEF Eligible
  <2>3. v = [u EXCEPT !.banker = p, !.bank = b]
    <3>1. Unlock(w, out).list = w.list BY <1>1 DEF Unlock, Tb
    <3>2. ~ \A j \in DOMAIN w.list : ~Eligible(w, j) BY <1>5
    <3>3. v = [Unlock(w, out) EXCEPT
                 !.list = SubSeq(@, i + 1, Len(@)),
                 !.banker = p,
                 !.bank = b]
      BY <1>5, <3>2, Zenon DEF TakeTurns, Taken
    <3>4. Unlock(w, out) \in Tb
      <4>1. out \in SUBSET Player BY <1>2, <2>1 DEF Before
      <4> QED BY <4>1, <1>1, UnlockParts
    <3> HIDE DEF v, b, out, p, i
    <3> QED BY <3>1, <3>3, <3>4 DEF Tb
  <2> HIDE DEF i
  <2>4. out \in SUBSET Player BY <1>2, <2>1 DEF Before
  <2>5. /\ s \in Seq(Player) /\ NoDup(s)
        /\ \A q : Member(s, q) <=> \E j \in DOMAIN w.list : i < j /\ w.list[j] = q
    BY <1>1, <2>1, Suffix
  <2>6. ASSUME NEW q \in Player
        PROVE  Member(s, q) <=> (Member(w.list, q) /\ q \notin out)
    <3>1. q \in out <=> \E j \in 1 .. i : w.list[j] = q BY DEF Before
    <3>2. ASSUME NEW j \in DOMAIN w.list, i < j, w.list[j] = q
          PROVE  q \notin out
      <4>1. ASSUME NEW k \in 1 .. i, w.list[k] = q PROVE FALSE
        <5>1. k \in DOMAIN w.list /\ k # j BY <1>2, <2>1, <3>2
        <5> QED BY <5>1, <4>1, <3>2, <1>1 DEF NoDup
      <4> QED BY <4>1, <3>1
    <3>3. ASSUME NEW j \in DOMAIN w.list, w.list[j] = q, q \notin out
          PROVE  i < j
      BY <1>2, <2>1, <3>1, <3>3
    <3> QED BY <2>5, <3>2, <3>3 DEF Member
  <2> HIDE DEF s
  <2>7. /\ Sound(u) /\ Keeps(w, u) /\ u.list = s
        /\ \A q \in Player : u.coin[q] >= w.coin[q]
    BY <2>4, <2>5, <2>6, UnlockSound
  <2>8. u.coin[p] >= n /\ u.coin \in [Player -> Nat]
    <3>1. p \in out BY <1>2, <2>1 DEF Before
    <3>2. u.coin = Unlock(w, out).coin
      BY <1>1, <2>4, <2>5, UnlockParts, WithList
    <3>3. Unlock(w, out).coin[p] = w.coin[p] + w.lock[p]
      BY <1>1, <2>2, <3>1 DEF Unlock, Tb
    <3>4. u.coin \in [Player -> Nat] BY <2>7 DEF Sound, Tb
    <3> HIDE DEF u, out, p
    <3> QED BY <1>1, <2>2, <3>2, <3>3, <3>4 DEF n
  <2>9. p \in here /\ ~Member(s, p)
    <3>1. Member(w.list, p) BY <2>1 DEF Member
    <3>2. p \in out BY <1>2, <2>1 DEF Before
    <3> QED BY <2>2, <2>6, <3>1, <3>2, InList DEF Sound, Locks
  <2>10. b \in Bank /\ b.score = n
    <3> HIDE DEF n
    <3>1. n \in Int BY <2>2
    <3>2. (p \in w.auto) \in BOOLEAN OBVIOUS
    <3> QED BY <3>1, <3>2, BankType, Zenon
  <2> HIDE DEF b, u, p, n
  <2>11. /\ v \in Tb /\ v.banker = p /\ v.bank = b /\ v.list = s
         /\ v.lock = u.lock /\ v.coin = u.coin
         /\ v.all = u.all /\ v.bets = u.bets
    <3>1. u \in Tb BY <2>7 DEF Sound
    <3>2. v = [u EXCEPT !.banker = p, !.bank = b] BY <2>3 DEF b, u, p, n
    <3> HIDE DEF v
    <3>3. p \in Player /\ b \in Bank BY <2>2, <2>10
    <3> HIDE DEF s
    <3>4. /\ v \in Tb /\ v.banker = p /\ v.bank = b /\ v.list = u.list
          /\ v.lock = u.lock /\ v.coin = u.coin
          /\ v.all = u.all /\ v.bets = u.bets
      BY <3>1, <3>2, <3>3 DEF Tb
    <3> QED BY <2>7, <3>4
  <2> HIDE DEF v
  <2>12. Locks(v)
    <3>1. \A q \in Player : IsInApplyList(v, q) <=> IsInApplyList(u, q)
      BY <2>7, <2>11, InList
    <3>2. ~IsInApplyList(v, p) BY <2>9, <2>11, InList
    <3> QED BY <2>5, <2>7, <2>11, <3>1, <3>2 DEF Locks, Sound
  <2>13. Seat(v) BY <2>8, <2>9, <2>10, <2>11 DEF Seat
  <2>14. Cleared(v) BY <2>7, <2>11 DEF Cleared, Keeps
  <2>15. Strong(v) BY <2>2, <2>10, <2>11 DEF Strong
  <2> QED BY <2>11, <2>12, <2>13, <2>14, <2>15 DEF Sound, v
<1> QED BY <1>3, <1>4, <1>5

LEMMA AutoAddSound ==
    ASSUME NEW w, Sound(w), w.banker # NoOne
    PROVE  LET v == AutoAddBankerScore(w)
           IN  /\ Sound(v) /\ v.banker = w.banker
               /\ v.all = w.all /\ v.bets = w.bets
<1> DEFINE v == AutoAddBankerScore(w)
           b == w.bank
           diff == Min2(b.init - b.score, w.coin[w.banker] - b.score)
<1>1. w \in Tb /\ w.banker \in Player BY DEF Sound, Tb
<1>2. b \in Bank /\ w.coin[w.banker] \in Nat BY <1>1 DEF Tb
<1>3. b.score \in Int /\ b.init \in Int /\ b.buyin \in Int BY <1>2 DEF Bank
<1>4. diff \in Int /\ diff <= w.coin[w.banker] - b.score
  BY <1>2, <1>3 DEF Min2
<1>5. CASE v = w BY <1>5
<1>6. CASE v = [w EXCEPT !.bank.buyin = @ + diff, !.bank.score = @ + diff]
  <2> DEFINE c == [b EXCEPT !.buyin = @ + diff, !.score = @ + diff]
  <2>1. c \in Bank /\ c.score = b.score + diff
    <3> DEFINE x == b.buyin + diff
               y == b.score + diff
    <3>1. x \in Int /\ y \in Int BY <1>3, <1>4
    <3>2. c = [b EXCEPT !.buyin = x, !.score = y] OBVIOUS
    <3> HIDE DEF diff, b, c, x
    <3>3. c.score = y BY <1>2, <3>2 DEF Bank
    <3> HIDE DEF y
    <3>4. c \in Bank BY <1>2, <3>1, <3>2 DEF Bank
    <3> QED BY <3>3, <3>4 DEF y
  <2>2. v = [w EXCEPT !.bank = c]
    <3> HIDE DEF diff, v
    <3> QED BY <1>1, <1>2, <1>6 DEF Tb, Bank
  <2> HIDE DEF c, diff, v
  <2>3. /\ v \in Tb /\ v.banker = w.banker /\ v.bank = c /\ v.list = w.list
        /\ v.lock = w.lock /\ v.coin = w.coin
        /\ v.all = w.all /\ v.bets = w.bets
    BY <1>1, <2>1, <2>2 DEF Tb
  <2>4. Locks(v) BY <2>3 DEF Locks, Sound, IsInApplyList
  <2>5. c.score <= w.coin[w.banker] BY <1>2, <1>3, <1>4, <2>1
  <2>6. Seat(v) BY <2>3, <2>5 DEF Seat, Sound
  <2> QED BY <2>3, <2>4, <2>6 DEF Sound, v
<1>7. v = w \/ v = [w EXCEPT !.bank.buyin = @ + diff, !.bank.score = @ + diff]
  BY DEF AutoAddBankerScore
<1> QED BY <1>5, <1>6, <1>7

LEMMA EarlyFeeType ==
    ASSUME NEW b \in Bank
    PROVE  EarlyFee(b) \in Int
<1>1. b.win \in Int BY DEF Bank
<1>2. CASE b.time \in DOMAIN EarlyPro
  <2>1. EarlyPro[b.time] \in 0 .. 100 BY <1>2, CostAssumption
  <2>2. b.win * EarlyPro[b.time] \in Int BY <1>1, <2>1
  <2> QED BY <2>2 DEF EarlyFee
<1>3. CASE b.time \notin DOMAIN EarlyPro BY <1>3 DEF EarlyFee
<1> QED BY <1>2, <1>3

LEMMA NoBankType == NoBank \in Bank
  BY DEF NoBank, Bank

LEMMA NoBetsType == NoBets \in Bets
  BY DEF NoBets, Bets

LEMMA ResetParts ==
    ASSUME NEW w \in Tb
    PROVE  LET v == ResetGameData(w)
           IN  /\ v \in Tb /\ v.banker = NoOne /\ Cleared(v)
               /\ v.list = w.list /\ v.lock = w.lock /\ v.coin = w.coin
  BY NoBankType, NoBetsType DEF Tb, ResetGameData, Cleared

(* The banker steps down.  It is not in the list, so nothing is unlocked.  *)
LEMMA CalcBankerSound ==
    ASSUME NEW w, Sound(w), w.banker # NoOne
    PROVE  LET v == CalcBankerScore(w)
           IN  Sound(v) /\ Cleared(v) /\ v.banker = NoOne
<1> DEFINE p == w.banker
           n == Max0(w.coin[p] - EarlyFee(w.bank))
           u == [w EXCEPT !.coin[p] = Max0(@ - EarlyFee(w.bank))]
           v == ResetGameData(u)
<1>1. w \in Tb /\ p \in Player /\ ~IsInApplyList(w, p)
  BY DEF Sound, Tb, Locks
<1>2. n \in Nat
  <2>1. w.coin[p] \in Nat /\ w.bank \in Bank BY <1>1 DEF Tb
  <2>2. w.coin[p] - EarlyFee(w.bank) \in Int BY <2>1, EarlyFeeType
  <2> QED BY <2>2, Max0Type
<1>3. u = [w EXCEPT !.coin = [@ EXCEPT ![p] = n]] BY <1>1 DEF Tb
<1> HIDE DEF n
<1>4. u \in Tb /\ u.list = w.list /\ u.lock = w.lock /\ u.banker = w.banker
  <2> HIDE DEF u, p
  <2> QED BY <1>1, <1>2, <1>3 DEF Tb
<1> HIDE DEF u
<1>5. RemoveApplyBanker(u, p) = u
  BY <1>1, <1>4 DEF RemoveApplyBanker, IsInApplyList
<1>6. CalcBankerScore(w) = v BY <1>5 DEF CalcBankerScore, u, n
<1>7. /\ v \in Tb /\ v.banker = NoOne /\ Cleared(v)
      /\ v.list = u.list /\ v.lock = u.lock /\ v.coin = u.coin
  BY <1>4, ResetParts
<1> HIDE DEF v
<1>8. Locks(v)
  <2>1. \A q \in Player : IsInApplyList(v, q) <=> IsInApplyList(w, q)
    BY <1>4, <1>7, InList
  <2> QED BY <1>4, <1>7, <2>1, Figures DEF Locks, Sound
<1>9. Seat(v) BY <1>7 DEF Seat
<1> QED BY <1>6, <1>7, <1>8, <1>9 DEF Sound

LEMMA ChangeBankerSound ==
    ASSUME NEW w, Sound(w), Cleared(w)
    PROVE  LET v == ChangeBanker(w)
           IN  Sound(v) /\ Cleared(v) /\ Strong(v)
<1>1. CASE w.banker = NoOne
  <2>1. ChangeBanker(w) = TakeTurns(w) BY <1>1 DEF ChangeBanker
  <2> QED BY <1>1, <2>1, TakeTurnsSound
<1>2. CASE w.banker # NoOne
  <2> DEFINE u == AutoAddBankerScore(w)
  <2>1. Sound(u) /\ u.banker = w.banker /\ Cleared(u)
    BY <1>2, AutoAddSound DEF Cleared
  <2>2. ChangeBanker(w) =
            IF StepsDown(u.bank) THEN TakeTurns(CalcBankerScore(u)) ELSE u
    BY <1>2 DEF ChangeBanker
  <2> HIDE DEF u
  <2>3. CASE StepsDown(u.bank)
    <3> DEFINE c == CalcBankerScore(u)
    <3>1. Sound(c) /\ Cleared(c) /\ c.banker = NoOne
      BY <1>2, <2>1, CalcBankerSound
    <3> HIDE DEF c
    <3>2. /\ Sound(TakeTurns(c)) /\ Cleared(TakeTurns(c))
          /\ Strong(TakeTurns(c))
      BY <3>1, TakeTurnsSound
    <3> QED BY <2>2, <2>3, <3>2 DEF c
  <2>4. CASE ~StepsDown(u.bank)
    <3>1. u.bank.score \in Int BY <2>1 DEF Sound, Tb, Bank
    <3>2. u.bank.score >= Condition BY <2>4, <3>1, Figures DEF StepsDown
    <3> QED BY <2>1, <2>2, <2>4, <3>2 DEF Strong
  <2> QED BY <2>3, <2>4
<1> QED BY <1>1, <1>2

-----------------------------------------------------------------------------
(* An application.                                                         *)
(* The record with p in the list, before a banker is chosen from it.       *)
Queued(w, p, n, auto) ==
    [w EXCEPT !.coin = [w.coin EXCEPT ![p] = @ - n],
              !.lock = [w.lock EXCEPT ![p] = n],
              !.list = Append(w.list, p),
              !.auto = IF auto THEN w.auto \cup {p} ELSE w.auto \ {p}]

LEMMA QueuedSound ==
    ASSUME NEW w, Sound(w), NEW p \in Player, p \in here, NEW n \in Nat,
           NEW auto \in BOOLEAN, CanApply(w, p, n)
    PROVE  LET u == Queued(w, p, n, auto)
           IN  /\ Sound(u) /\ Keeps(w, u)
               /\ u.coin[p] = w.coin[p] - n /\ u.lock[p] = n
               /\ \A q \in Player \ {p} :
                     u.coin[q] = w.coin[q] /\ u.lock[q] = w.lock[q]
               /\ \/ Queue(w, p, n, auto) = u
                  \/ /\ state = "free"
                     /\ Queue(w, p, n, auto) = ChangeBanker(u)
<1> DEFINE s == Append(w.list, p)
           a == IF auto THEN w.auto \cup {p} ELSE w.auto \ {p}
           c == [w.coin EXCEPT ![p] = @ - n]
           l == [w.lock EXCEPT ![p] = n]
           u == [w EXCEPT !.coin = c, !.lock = l, !.list = s, !.auto = a]
           v == Queue(w, p, n, auto)
<1>1. /\ w \in Tb /\ w.list \in Seq(Player) /\ NoDup(w.list)
      /\ w.coin \in [Player -> Nat] /\ w.lock \in [Player -> Nat]
      /\ w.auto \subseteq Player
  BY DEF Sound, Tb, Locks
<1>2. /\ w.banker # p /\ n <= w.coin[p] /\ n >= Condition /\ n <= Limit
      /\ ~Member(w.list, p)
  BY InList DEF CanApply
<1>3. /\ s \in Seq(Player) /\ NoDup(s)
      /\ \A q : Member(s, q) <=> (q = p \/ Member(w.list, q))
  BY <1>1, <1>2, Appended
<1>4. a \in SUBSET Player BY <1>1
<1>5. v = IF state = "free" /\ Len(u.list) = 1 THEN ChangeBanker(u) ELSE u
  <2> DEFINE y == LockApplyScore(w, p, n)
             z == [y EXCEPT !.list = Append(@, p),
                            !.auto = IF auto THEN @ \cup {p} ELSE @ \ {p}]
  <2>1. y = [w EXCEPT !.coin = c, !.lock = l] BY DEF LockApplyScore
  <2>2. y.list = w.list /\ y.auto = w.auto BY <1>1, <2>1 DEF Tb
  <2>3. z = [y EXCEPT !.list = s, !.auto = a] BY <2>2
  <2>4. z = u
    <3> HIDE DEF y, z, s, a, c, l
    <3> QED BY <1>1, <2>1, <2>3 DEF Tb
  <2>5. v = IF state = "free" /\ Len(z.list) = 1 THEN ChangeBanker(z) ELSE z
    BY Zenon DEF Queue
  <2> HIDE DEF z, u, v
  <2> QED BY <2>4, <2>5
<1> HIDE DEF s, a, v
<1>6. /\ u \in Tb /\ Keeps(w, u) /\ u.list = s /\ u.lock[p] = n
      /\ u.coin = c /\ u.lock = l
      /\ \A q \in Player \ {p} : u.coin[q] = w.coin[q] /\ u.lock[q] = w.lock[q]
  <2>1. w.coin[p] - n \in Nat BY <1>1, <1>2
  <2>2. /\ c \in [Player -> Nat] /\ l \in [Player -> Nat]
        /\ l[p] = n
        /\ \A q \in Player \ {p} : c[q] = w.coin[q] /\ l[q] = w.lock[q]
    BY <1>1, <2>1
  <2> HIDE DEF c, l
  <2>3. /\ u \in Tb /\ Keeps(w, u) /\ u.list = s /\ u.coin = c /\ u.lock = l
    BY <1>1, <1>3, <1>4, <2>2 DEF Tb, Keeps
  <2> HIDE DEF u
  <2> QED BY <2>2, <2>3
<1>12. u = Queued(w, p, n, auto) BY DEF Queued, s, a
<1> HIDE DEF u
<1>7. Locks(u)
  <2>1. ASSUME NEW q \in Player
        PROVE  IF IsInApplyList(u, q)
               THEN q \in here /\ q # u.banker /\ u.lock[q] \in Condition .. Limit
               ELSE u.lock[q] = 0
    <3>1. IsInApplyList(u, q) <=> (q = p \/ IsInApplyList(w, q))
      BY <1>3, <1>6, InList
    <3>2. CASE q = p BY <3>1, <3>2, <1>2, <1>6, Figures DEF Keeps
    <3>3. CASE q # p BY <3>1, <3>3, <1>6 DEF Keeps, Sound, Locks
    <3> QED BY <3>2, <3>3
  <2> QED BY <2>1, <1>3, <1>6 DEF Locks
<1>8. Seat(u)
  <2> SUFFICES ASSUME u.banker # NoOne
               PROVE  u.banker \in here /\ u.bank.score <= u.coin[u.banker]
    BY DEF Seat
  <2>1. u.banker = w.banker /\ u.bank = w.bank BY <1>6 DEF Keeps
  <2>2. w.banker \in Player \ {p} BY <1>1, <1>2, <2>1 DEF Tb
  <2>3. u.coin[w.banker] = w.coin[w.banker] BY <1>6, <2>2
  <2> QED BY <2>1, <2>3 DEF Sound, Seat
<1>9. Sound(u) BY <1>6, <1>7, <1>8 DEF Sound
<1>13. c[p] = w.coin[p] - n BY <1>1
<1> HIDE DEF c
<1> QED BY <1>5, <1>6, <1>9, <1>12, <1>13 DEF v

LEMMA QueueSound ==
    ASSUME NEW w, Sound(w), NEW p \in Player, p \in here, NEW n \in Nat,
           NEW auto \in BOOLEAN, CanApply(w, p, n),
           state = "free" => Cleared(w) /\ Strong(w)
    PROVE  LET v == Queue(w, p, n, auto)
           IN  /\ Sound(v)
               /\ state = "free" => Cleared(v) /\ Strong(v)
               /\ state # "free" =>
                     /\ Keeps(w, v)
                     /\ \A q \in Player \ {p} : v.coin[q] = w.coin[q]
<1> DEFINE u == Queued(w, p, n, auto)
           v == Queue(w, p, n, auto)
<1>1. /\ Sound(u) /\ Keeps(w, u)
      /\ \A q \in Player \ {p} : u.coin[q] = w.coin[q]
      /\ v = u \/ (state = "free" /\ v = ChangeBanker(u))
  BY QueuedSound
<1> HIDE DEF u, v
<1>2. CASE state = "free" /\ v = ChangeBanker(u)
  <2>1. Cleared(u) BY <1>1, <1>2 DEF Cleared, Keeps
  <2>2. Sound(v) /\ Cleared(v) /\ Strong(v)
    BY <1>1, <1>2, <2>1, ChangeBankerSound
  <2> QED BY <1>2, <2>2 DEF v
<1>3. CASE v = u
  <2>1. state = "free" => Cleared(u) /\ Strong(u)
    BY <1>1 DEF Cleared, Strong, Keeps
  <2> QED BY <1>1, <1>3, <2>1 DEF v
<1> QED BY <1>1, <1>2, <1>3

LEMMA AppliedSound ==
    ASSUME NEW w, Sound(w), NEW p \in Player, p \in here, NEW n \in Nat,
           NEW auto \in BOOLEAN, CanApply(w, p, n),
           state = "free" => Cleared(w) /\ Strong(w),
           NEW v \in Applied(w, p, n, auto)
    PROVE  /\ Sound(v)
           /\ state = "free" => Cleared(v) /\ Strong(v)
           /\ state # "free" =>
                 /\ Keeps(w, v)
                 /\ \A q \in Player \ {p} : v.coin[q] = w.coin[q]
<1> DEFINE u == Queue(w, p, n, auto)
<1>1. /\ Sound(u)
      /\ state = "free" => Cleared(u) /\ Strong(u)
      /\ state # "free" =>
            /\ Keeps(w, u)
            /\ \A q \in Player \ {p} : u.coin[q] = w.coin[q]
  BY QueueSound
<1>2. PICK s \in Sorted(u) : v = [u EXCEPT !.list = s] BY DEF Applied
<1> HIDE DEF u
<1>3. u \in Tb /\ Len(u.list) \in Nat BY <1>1, SeqFacts DEF Sound, Tb
<1>4. /\ s \in [1 .. Len(u.list) -> Player]
      /\ NoDup(s)
      /\ \A q \in Player : IsInApplyList(u, q) <=> Member(s, q)
  BY <1>2 DEF Sorted, NoDup, Member
<1>5. s \in Seq(Player) BY <1>3, <1>4
<1>6. /\ v \in Tb /\ v.list = s /\ v.coin = u.coin /\ v.lock = u.lock
      /\ Keeps(u, v)
  BY <1>2, <1>3, <1>5, WithList
<1>7. \A q \in Player : IsInApplyList(v, q) <=> IsInApplyList(u, q)
  BY <1>4, <1>6, InList
<1>8. Locks(v) BY <1>1, <1>4, <1>6, <1>7 DEF Locks, Sound, Keeps
<1>9. Seat(v) BY <1>1, <1>6 DEF Seat, Sound, Keeps
<1>10. Sound(v) BY <1>6, <1>8, <1>9 DEF Sound
<1>11. state = "free" => Cleared(v) /\ Strong(v)
  BY <1>1, <1>6 DEF Cleared, Strong, Keeps
<1>12. state # "free" =>
          /\ Keeps(w, v)
          /\ \A q \in Player \ {p} : v.coin[q] = w.coin[q]
  BY <1>1, <1>6 DEF Keeps
<1> QED BY <1>10, <1>11, <1>12

-----------------------------------------------------------------------------
(* Bets.                                                                   *)
LEMMA TotalType == \A b \in Bets : Total(b) \in Nat
  BY DEF Total, Bets, Area

LEMMA BetType == \A w \in Tb : \A p \in Player : Bet(w, p) \in Nat
  BY TotalType DEF Bet, Tb

LEMMA NoBetsTotal == NoBets \in Bets /\ Total(NoBets) = 0
  BY DEF NoBets, Bets, Total, Area

(* What is bet within GetUserMaxJetton is covered on both sides.           *)
LEMMA BetCovered ==
    ASSUME NEW w \in Tb, NEW p \in Player, NEW n \in Nat \ {0}, CanBet(w, p, n)
    PROVE  /\ Rate * (Bet(w, p) + n) <= w.coin[p]
           /\ Rate * (w.all + n) <= w.bank.score
<1> DEFINE b == Bet(w, p)
           x == w.coin[p] - b * Rate
           y == w.bank.score - w.all * Rate
<1>1. Rate \in Int /\ Rate > 0 BY Figures
<1>2. b \in Nat BY BetType
<1>3. w.coin[p] \in Nat /\ w.bank.score \in Int /\ w.all \in Nat BY DEF Tb, Bank
<1>4. Max0(Min2(x \div Rate, y \div Rate)) >= n
  BY DEF CanBet, GetUserMaxJetton
<1> HIDE DEF b
<1>5. b * Rate \in Int /\ w.all * Rate \in Int BY <1>1, <1>2, <1>3
<1>6. x \in Int /\ y \in Int BY <1>3, <1>5
<1> DEFINE c == w.coin[p]
           k == w.bank.score
<1>7. x = c - b * Rate /\ y = k - w.all * Rate OBVIOUS
<1> HIDE DEF x, y, c, k
<1>8. x \div Rate \in Int /\ y \div Rate \in Int BY <1>1, <1>6
<1>9. n <= x \div Rate /\ n <= y \div Rate BY <1>4, <1>8 DEF Max0, Min2
<1>10. Rate * n <= x /\ Rate * n <= y BY <1>6, <1>9, DivBound
<1>11. /\ Rate * (b + n) = b * Rate + Rate * n
       /\ Rate * (w.all + n) = w.all * Rate + Rate * n
  BY <1>1, <1>2, <1>3
<1>12. c \in Int /\ k \in Int /\ Rate * n \in Int BY <1>1, <1>3 DEF c, k
<1> QED BY <1>5, <1>7, <1>10, <1>11, <1>12 DEF b, c, k

LEMMA AddBetsParts ==
    ASSUME NEW w \in Tb, NEW p \in Player, NEW b \in Bets
    PROVE  LET v == AddBets(w, p, b)
           IN  /\ v \in Tb
               /\ v.banker = w.banker /\ v.bank = w.bank /\ v.list = w.list
               /\ v.lock = w.lock /\ v.coin = w.coin
               /\ v.all = w.all + Total(b)
               /\ Bet(v, p) = Bet(w, p) + Total(b)
               /\ \A q \in Player \ {p} : Bet(v, q) = Bet(w, q)
<1> DEFINE c == [a \in Area |-> w.bets[p][a] + b[a]]
           v == AddBets(w, p, b)
<1>1. w.bets \in [Player -> Bets] /\ w.bets[p] \in [Area -> Nat] /\ w.all \in Nat
  BY DEF Tb, Bets
<1>2. b \in [Area -> Nat] BY DEF Bets
<1>3. c \in Bets BY <1>1, <1>2 DEF Bets
<1>4. Total(c) = Total(w.bets[p]) + Total(b)
  BY <1>1, <1>2 DEF Total, Area
<1>5. Total(b) \in Nat BY TotalType
<1>6. v = [w EXCEPT !.bets = [@ EXCEPT ![p] = c], !.all = @ + Total(b)]
  BY DEF AddBets, Tb
<1> HIDE DEF c, v
<1>7. /\ v \in Tb
      /\ v.banker = w.banker /\ v.bank = w.bank /\ v.list = w.list
      /\ v.lock = w.lock /\ v.coin = w.coin
      /\ v.all = w.all + Total(b)
      /\ v.bets = [w.bets EXCEPT ![p] = c]
  <2> DEFINE z == w.all + Total(b)
  <2>1. z \in Nat BY <1>1, <1>5
  <2>2. [w.bets EXCEPT ![p] = c] \in [Player -> Bets] BY <1>1, <1>3
  <2>3. v = [w EXCEPT !.bets = [@ EXCEPT ![p] = c], !.all = z]
    BY <1>6 DEF Tb
  <2> HIDE DEF z
  <2>4. /\ v \in Tb
        /\ v.banker = w.banker /\ v.bank = w.bank /\ v.list = w.list
        /\ v.lock = w.lock /\ v.coin = w.coin
        /\ v.all = z
        /\ v.bets = [w.bets EXCEPT ![p] = c]
    BY <2>1, <2>2, <2>3 DEF Tb
  <2> QED BY <2>4 DEF z
<1>8. v.bets[p] = c /\ \A q \in Player \ {p} : v.bets[q] = w.bets[q]
  BY <1>1, <1>7
<1> QED BY <1>4, <1>7, <1>8 DEF Bet, v

(* The settlement.  The banker's coin and its score get the same amount.   *)
LEMMA Max0Product ==
    \A x, y \in Int : Max0(x * y) \in Nat /\ Max0(-x * y) \in Nat
  BY DEF Max0

LEMMA GrossLossType ==
    ASSUME NEW b \in Bets, NEW m \in Outcome
    PROVE  Gross(b, m) \in Nat /\ Loss(b, m) \in Nat
<1>1. \A a \in Area : b[a] \in Int /\ m[a] \in Int
  BY Figures DEF Bets, Outcome
<1>2. 0 \in Area /\ 1 \in Area /\ 2 \in Area BY DEF Area
<1>3. /\ Max0(b[0] * m[0]) \in Nat /\ Max0(-b[0] * m[0]) \in Nat
      /\ Max0(b[1] * m[1]) \in Nat /\ Max0(-b[1] * m[1]) \in Nat
      /\ Max0(b[2] * m[2]) \in Nat /\ Max0(-b[2] * m[2]) \in Nat
  BY <1>1, <1>2, Max0Product
<1> QED BY <1>3 DEF Gross, Loss

LEMMA BankerWonType ==
    ASSUME NEW w \in Tb, here \subseteq Player, NEW m \in Outcome
    PROVE  BankerWon(w, m) \in Int
<1> DEFINE f == [p \in here |-> Loss(w.bets[p], m)]
           g == [p \in here |-> Gross(w.bets[p], m)]
<1>1. IsFiniteSet(here) BY PlayerAssumption, FS_Subset
<1>2. \A p \in here : w.bets[p] \in Bets BY DEF Tb
<1>3. f \in [here -> Nat] /\ g \in [here -> Nat] BY <1>2, GrossLossType
<1>4. Sum(f) \in Nat /\ Sum(g) \in Nat BY <1>1, <1>3, SumNat
<1> HIDE DEF f, g
<1>5. DeducEndFee(Sum(f)) \in Int BY <1>4, FeeType
<1>6. Sum(f) - Sum(g) - DeducEndFee(Sum(f)) \in Int BY <1>4, <1>5
<1> QED BY <1>6 DEF BankerWon, f, g

LEMMA WonType ==
    ASSUME NEW w \in Tb, NEW p \in Player, NEW m \in Outcome
    PROVE  Won(w, p, m) \in Int
<1>1. w.bets[p] \in Bets BY DEF Tb
<1>2. Gross(w.bets[p], m) \in Int /\ Loss(w.bets[p], m) \in Int
  BY <1>1, GrossLossType
<1>3. DeducEndFee(Gross(w.bets[p], m)) \in Int BY <1>2, FeeType
<1> QED BY <1>2, <1>3 DEF Won

LEMMA SettleSound ==
    ASSUME NEW w, Sound(w), here \subseteq Player, w.banker # NoOne,
           NEW m \in Outcome
    PROVE  LET v == Settle(w, m)
           IN  Sound(v) /\ v.banker = w.banker
<1> DEFINE n == BankerWon(w, m)
           b == [w.bank EXCEPT !.score = @ + n, !.win = @ + n, !.time = @ + 1]
           c == [p \in Player |->
                   CASE p = w.banker -> Max0(w.coin[p] + n)
                     [] p \in here /\ p # w.banker ->
                           Max0(w.coin[p] + Won(w, p, m))
                     [] OTHER -> w.coin[p]]
           v == Settle(w, m)
<1>1. w \in Tb /\ w.banker \in Player BY DEF Sound, Tb
<1>2. w.coin \in [Player -> Nat] /\ w.bank \in Bank BY <1>1 DEF Tb
<1>3. n \in Int BY <1>1, BankerWonType
<1>4. v = [w EXCEPT !.coin = c, !.bank = b]
  <2> HIDE DEF n
  <2>1. v = [w EXCEPT !.coin = c, !.bank.score = @ + n, !.bank.win = @ + n,
                      !.bank.time = @ + 1]
    BY <1>1 DEF Settle, Tb, n
  <2> HIDE DEF c, v
  <2> QED BY <1>1, <1>2, <2>1 DEF Tb, Bank
<1>5. c \in [Player -> Nat]
  <2> HIDE DEF n
  <2> SUFFICES ASSUME NEW p \in Player PROVE c[p] \in Nat
    OBVIOUS
  <2>1. CASE p = w.banker
    <3>1. c[p] = Max0(w.coin[p] + n) BY <2>1
    <3>2. w.coin[p] + n \in Int BY <1>2, <1>3
    <3> HIDE DEF c
    <3> QED BY <3>1, <3>2, Max0Type
  <2>2. CASE p # w.banker /\ p \in here
    <3>1. c[p] = Max0(w.coin[p] + Won(w, p, m)) BY <2>2
    <3>2. w.coin[p] + Won(w, p, m) \in Int BY <1>1, <1>2, WonType
    <3> HIDE DEF c
    <3> QED BY <3>1, <3>2, Max0Type
  <2>3. CASE p # w.banker /\ p \notin here
    <3>1. c[p] = w.coin[p] BY <2>3
    <3> HIDE DEF c
    <3> QED BY <3>1, <1>2
  <2> QED BY <2>1, <2>2, <2>3
<1>6. c[w.banker] >= w.coin[w.banker] + n
  <2> HIDE DEF n
  <2>1. c[w.banker] = Max0(w.coin[w.banker] + n) BY <1>1
  <2>2. w.coin[w.banker] + n \in Int BY <1>1, <1>2, <1>3
  <2> HIDE DEF c
  <2> QED BY <2>1, <2>2, Max0Type
<1> HIDE DEF n, c
<1>7. b \in Bank /\ b.score = w.bank.score + n
  <2> DEFINE x == w.bank.score + n
             y == w.bank.win + n
             z == w.bank.time + 1
  <2>1. x \in Int /\ y \in Int /\ z \in Nat BY <1>2, <1>3 DEF Bank
  <2>2. b = [w.bank EXCEPT !.score = x, !.win = y, !.time = z] OBVIOUS
  <2> HIDE DEF b, y, z
  <2>3. b.score = x BY <1>2, <2>2 DEF Bank
  <2> HIDE DEF x
  <2>4. b \in Bank BY <1>2, <2>1, <2>2 DEF Bank
  <2> QED BY <2>3, <2>4 DEF x
<1> HIDE DEF b, v
<1>8. /\ v \in Tb /\ v.banker = w.banker /\ v.bank = b /\ v.list = w.list
      /\ v.lock = w.lock /\ v.coin = c
  BY <1>1, <1>4, <1>5, <1>7 DEF Tb
<1>9. Locks(v) BY <1>8 DEF Locks, Sound, IsInApplyList
<1>10. Seat(v)
  <2>1. w.banker \in here /\ w.bank.score <= w.coin[w.banker]
    BY DEF Sound, Seat
  <2>2. w.bank.score \in Int /\ w.coin[w.banker] \in Nat /\ c[w.banker] \in Nat
    BY <1>1, <1>2, <1>5 DEF Bank
  <2> QED BY <1>3, <1>6, <1>7, <1>8, <2>1, <2>2 DEF Seat
<1> QED BY <1>8, <1>9, <1>10 DEF Sound, v

-----------------------------------------------------------------------------
(* The steps.  Where only the money moves, and how, is all there is to say.*)
LEMMA IInvParts ==
    ASSUME IInv
    PROVE  /\ state \in State /\ here \subseteq Player /\ tb \in Tb
           /\ online \subseteq Player /\ mayBet \subseteq Player
           /\ open \in BOOLEAN /\ jumped \subseteq Player /\ overflows \in Nat
           /\ asking \in [on : BOOLEAN, left : SUBSET Robot]
           /\ Sound(tb)
           /\ state = "free" => Cleared(tb) /\ Strong(tb)
  BY DEF IInv, TypeOK, Sound

(* An action that leaves the state and the members as they are, and the    *)
(* loop over the robots.                                                   *)
LEMMA TableStep ==
    ASSUME IInv, Sound(tb'), UNCHANGED <<state, here, online, mayBet, open, asking>>,
           jumped' \in SUBSET Player, overflows' \in Nat,
           state = "free" => Cleared(tb') /\ Strong(tb'),
           state = "jetton" => tb'.banker # NoOne,
           state = "jetton" /\ overflows' = 0 =>
              /\ Rate * tb'.all <= tb'.bank.score
              /\ \A p \in Player \ jumped' : Rate * Bet(tb', p) <= tb'.coin[p]
    PROVE  IInv'
<1>1. TypeOK' BY DEF IInv, TypeOK, Sound
<1>2. Locks(tb)' /\ Seat(tb)' BY DEF Sound, Locks, Seat, IsInApplyList
<1>3. state' = "free" => Cleared(tb)' /\ Strong(tb)' BY DEF Cleared, Strong
<1>4. BettorCovers' BY DEF BettorCovers, Bet
<1> QED BY <1>1, <1>2, <1>3, <1>4 DEF IInv

LEMMA InitIInv == Init => IInv
<1> SUFFICES ASSUME Init PROVE IInv
  OBVIOUS
<1>1. /\ state = "free" /\ here = {} /\ online = {} /\ mayBet = {}
      /\ open = FALSE /\ asking = [on |-> FALSE, left |-> {}] /\ jumped = {}
      /\ overflows = 0
  BY DEF Init
<1>2. /\ tb.banker = NoOne /\ tb.bank = NoBank /\ tb.list = <<>>
      /\ tb.lock = [p \in Player |-> 0] /\ tb.auto = {} /\ tb.coin \in Start
      /\ tb.bets = [p \in Player |-> NoBets] /\ tb.all = 0
      /\ tb = [banker |-> tb.banker, bank |-> tb.bank, list |-> tb.list,
               lock |-> tb.lock, auto |-> tb.auto, coin |-> tb.coin,
               bets |-> tb.bets, all |-> tb.all]
  BY DEF Init
<1>3. tb \in Tb
  <2>1. tb.coin \in [Player -> Nat] BY <1>2, StartAssumption
  <2>2. tb.list \in Seq(Player) BY <1>2, EmptySeq
  <2>3. tb.bets \in [Player -> Bets] BY <1>2, NoBetsType
  <2>4. tb.lock \in [Player -> Nat] /\ tb.bank \in Bank BY <1>2, NoBankType
  <2>5. tb.banker \in Player \cup {NoOne} /\ tb.auto \in SUBSET Player /\ tb.all \in Nat
    BY <1>2
  <2> QED BY <1>2, <2>1, <2>2, <2>3, <2>4, <2>5 DEF Tb
<1>4. TypeOK BY <1>1, <1>3 DEF TypeOK, State
<1>5. Locks(tb) BY <1>2 DEF Locks, NoDup, IsInApplyList
<1>6. Seat(tb) /\ Strong(tb) BY <1>2 DEF Seat, Strong
<1>7. Cleared(tb) BY <1>2 DEF Cleared
<1>8. BettorCovers BY <1>1 DEF BettorCovers
<1> QED BY <1>1, <1>4, <1>5, <1>6, <1>7, <1>8 DEF IInv

LEMMA EnterStep ==
    ASSUME IInv, NEW p \in Player, EnterTable(p)
    PROVE  IInv'
<1>1. TypeOK' BY DEF IInv, TypeOK, EnterTable
<1>2. Locks(tb)' BY DEF IInv, Locks, EnterTable, IsInApplyList
<1>3. Seat(tb)' BY DEF IInv, Seat, EnterTable
<1>4. state' = "free" => Cleared(tb)' /\ Strong(tb)'
  BY DEF IInv, Cleared, Strong, EnterTable
<1>5. BettorCovers' BY DEF IInv, BettorCovers, Bet, EnterTable
<1>6. /\ asking'.left \subseteq here'
      /\ IF asking'.on THEN state' = "free" ELSE asking'.left = {}
      /\ state' = "jetton" =>
            /\ tb'.banker # NoOne
            /\ overflows' = 0 => Rate * tb'.all <= tb'.bank.score
  BY DEF IInv, EnterTable
<1> QED BY <1>1, <1>2, <1>3, <1>4, <1>5, <1>6 DEF IInv

(* Leaving needs neither seat, nor bet, nor place in the list.             *)
LEMMA LeaveStep ==
    ASSUME IInv, NEW p \in Player, ~asking.on, CanLeaveTable(tb, p), OnLeave(p),
           online' \subseteq Player, UNCHANGED <<state, open, asking, jumped, overflows>>
    PROVE  IInv'
<1>1. ~IsInApplyList(tb, p) /\ tb.banker # p BY DEF CanLeaveTable
<1>2. RemoveApplyBanker(tb, p) = tb BY <1>1 DEF RemoveApplyBanker
<1>3. /\ here' = here \ {p} /\ mayBet' = mayBet \ {p}
      /\ tb' = [tb EXCEPT !.bets = [@ EXCEPT ![p] = NoBets]]
  BY <1>2 DEF OnLeave
<1>4. tb \in Tb /\ Sound(tb) BY IInvParts
<1>5. /\ tb' \in Tb /\ tb'.banker = tb.banker /\ tb'.bank = tb.bank
      /\ tb'.list = tb.list /\ tb'.lock = tb.lock /\ tb'.coin = tb.coin
      /\ tb'.all = tb.all /\ tb'.bets = [tb.bets EXCEPT ![p] = NoBets]
  BY <1>3, <1>4, NoBetsType DEF Tb
<1>6. TypeOK' BY <1>3, <1>5 DEF IInv, TypeOK
<1>7. Locks(tb)'
  <2>1. \A q \in Player : IsInApplyList(tb, q)' <=> IsInApplyList(tb, q)
    BY <1>5 DEF IsInApplyList
  <2> QED BY <1>1, <1>3, <1>4, <1>5, <2>1 DEF Sound, Locks
<1>8. Seat(tb)' BY <1>1, <1>3, <1>4, <1>5 DEF Sound, Seat
<1>9. state' = "free" => Cleared(tb)' /\ Strong(tb)'
  <2> SUFFICES ASSUME state = "free" PROVE Cleared(tb)' /\ Strong(tb)'
    OBVIOUS
  <2>1. Cleared(tb) /\ Strong(tb) BY DEF IInv
  <2>2. tb'.bets = [q \in Player |-> NoBets] BY <1>5, <2>1 DEF Cleared
  <2> QED BY <1>5, <2>1, <2>2 DEF Cleared, Strong
<1>10. BettorCovers'
  <2> SUFFICES ASSUME state = "jetton", overflows = 0, NEW q \in Player \ jumped
               PROVE  Rate * Bet(tb, q)' <= tb'.coin[q]
    BY DEF BettorCovers
  <2>1. CASE q = p
    <3>1. tb'.bets[p] = NoBets BY <1>4, <1>5 DEF Tb
    <3>2. Bet(tb, p)' = 0 BY <3>1, NoBetsTotal DEF Bet
    <3>3. tb'.coin[p] \in Nat BY <1>5 DEF Tb
    <3> QED BY <2>1, <3>2, <3>3, Figures
  <2>2. CASE q # p
    <3>1. tb'.bets[q] = tb.bets[q] BY <1>4, <1>5, <2>2 DEF Tb
    <3>2. Bet(tb, q)' = Bet(tb, q) BY <3>1 DEF Bet
    <3> QED BY <1>5, <3>2 DEF IInv, BettorCovers
  <2> QED BY <2>1, <2>2
<1>11. /\ asking'.left \subseteq here'
       /\ IF asking'.on THEN state' = "free" ELSE asking'.left = {}
       /\ state' = "jetton" =>
            /\ tb'.banker # NoOne
            /\ overflows' = 0 => Rate * tb'.all <= tb'.bank.score
  BY <1>5 DEF IInv
<1> QED BY <1>6, <1>7, <1>8, <1>9, <1>10, <1>11 DEF IInv

(* Bets within the limits, unless their sum has wrapped.                   *)
LEMMA BetStep ==
    ASSUME IInv, NEW p \in Player, NEW b \in Bets, Total(b) \in Nat \ {0},
           state = "jetton", tb' = AddBets(tb, p, b), overflows' \in Nat,
           overflows' = 0 => overflows = 0 /\ CanBet(tb, p, Total(b)),
           UNCHANGED <<state, here, online, mayBet, open, asking, jumped>>
    PROVE  IInv'
<1>1. tb \in Tb /\ Sound(tb) /\ jumped \in SUBSET Player BY IInvParts
<1>2. /\ tb' \in Tb
      /\ tb'.banker = tb.banker /\ tb'.bank = tb.bank /\ tb'.list = tb.list
      /\ tb'.lock = tb.lock /\ tb'.coin = tb.coin
      /\ tb'.all = tb.all + Total(b)
      /\ Bet(tb', p) = Bet(tb, p) + Total(b)
      /\ \A q \in Player \ {p} : Bet(tb', q) = Bet(tb, q)
  BY <1>1, AddBetsParts
<1>3. Sound(tb')
  <2>1. Locks(tb') BY <1>1, <1>2 DEF Sound, Locks, IsInApplyList
  <2>2. Seat(tb') BY <1>1, <1>2 DEF Sound, Seat
  <2> QED BY <1>2, <2>1, <2>2 DEF Sound
<1>4. tb'.banker # NoOne BY <1>2 DEF IInv
<1>5. ASSUME overflows' = 0
      PROVE  /\ Rate * tb'.all <= tb'.bank.score
             /\ \A q \in Player \ jumped' : Rate * Bet(tb', q) <= tb'.coin[q]
  <2>1. overflows = 0 /\ CanBet(tb, p, Total(b)) BY <1>5
  <2>2. /\ Rate * (Bet(tb, p) + Total(b)) <= tb.coin[p]
        /\ Rate * (tb.all + Total(b)) <= tb.bank.score
    BY <1>1, <2>1, BetCovered
  <2>3. \A q \in Player \ jumped : Rate * Bet(tb, q) <= tb.coin[q]
    BY <2>1 DEF IInv, BettorCovers
  <2> QED BY <1>2, <2>2, <2>3
<1> QED BY <1>1, <1>3, <1>4, <1>5, TableStep

LEMMA PlaceJettonStep ==
    ASSUME IInv, NEW p \in Player, OnUserPlaceJetton(p)
    PROVE  IInv'
<1>1. PICK a \in BetArea, n \in 1 .. MaxBet :
         /\ CanBet(tb, p, n)
         /\ tb' = AddBets(tb, p, [NoBets EXCEPT ![a] = n])
  BY DEF OnUserPlaceJetton
<1> DEFINE b == [NoBets EXCEPT ![a] = n]
<1>2. n \in Nat \ {0} /\ a \in Area BY Figures, AreaAssumption
<1>3. b \in Bets /\ Total(b) = n
  BY <1>2 DEF NoBets, Bets, Total, Area
<1> HIDE DEF b
<1>4. tb' = AddBets(tb, p, b) /\ CanBet(tb, p, Total(b)) BY <1>1, <1>3 DEF b
<1>5. UNCHANGED <<state, here, online, mayBet, open, asking, jumped, overflows>>
  BY DEF OnUserPlaceJetton
<1>6. state = "jetton" /\ overflows \in Nat
  BY <1>1, IInvParts DEF CanBet
<1> QED BY <1>2, <1>3, <1>4, <1>5, <1>6, BetStep

LEMMA PressureStep ==
    ASSUME IInv, NEW p \in Player, OnUserContinuousPressure(p)
    PROVE  IInv'
<1>1. PICK c \in [BetArea -> 0 .. MaxBet] :
         LET b == [a \in Area |-> IF a \in BetArea THEN c[a] ELSE 0]
         IN  /\ Total(b) > 0
             /\ CanBet(tb, p, Wrap(Total(b)))
             /\ tb' = AddBets(tb, p, b)
             /\ IF Wrap(Total(b)) = Total(b)
                THEN overflows' = overflows
                ELSE overflows < MaxOverflows /\ overflows' = overflows + 1
  BY DEF OnUserContinuousPressure
<1> DEFINE b == [a \in Area |-> IF a \in BetArea THEN c[a] ELSE 0]
<1>2. b \in Bets
  <2>1. \A a \in BetArea : c[a] \in Nat BY Figures
  <2> QED BY <2>1 DEF Bets
<1>3. /\ Total(b) > 0 /\ CanBet(tb, p, Wrap(Total(b))) /\ tb' = AddBets(tb, p, b)
      /\ \/ Wrap(Total(b)) = Total(b) /\ overflows' = overflows
         \/ overflows' = overflows + 1
  BY <1>1
<1> HIDE DEF b
<1>4. Total(b) \in Nat \ {0} BY <1>2, <1>3, TotalType
<1>5. UNCHANGED <<state, here, online, mayBet, open, asking, jumped>>
  BY DEF OnUserContinuousPressure
<1>6. state = "jetton" BY <1>3 DEF CanBet
<1>7. /\ overflows' \in Nat
      /\ overflows' = 0 => overflows = 0 /\ CanBet(tb, p, Total(b))
  <2>1. overflows \in Nat BY IInvParts
  <2>2. CASE Wrap(Total(b)) = Total(b) /\ overflows' = overflows
    <3>1. CanBet(tb, p, Total(b)) BY <1>3, <2>2
    <3> QED BY <2>1, <2>2, <3>1
  <2>3. CASE overflows' = overflows + 1
    <3>1. overflows' \in Nat /\ overflows' # 0 BY <2>1, <2>3
    <3> QED BY <3>1
  <2> QED BY <1>3, <2>2, <2>3
<1> QED BY <1>2, <1>3, <1>4, <1>5, <1>6, <1>7, BetStep

(* Whoever applies has no bets out, so that locking its coin uncovers none.*)
LEMMA ApplyStep ==
    ASSUME IInv, NEW p \in Player, OnUserApplyBanker(p)
    PROVE  IInv'
<1>1. PICK n \in 1 .. Limit, auto \in BOOLEAN :
         CanApply(tb, p, n) /\ tb' \in Applied(tb, p, n, auto)
  BY DEF OnUserApplyBanker
<1>2. n \in Nat BY Figures
<1>3. p \in here BY DEF OnUserApplyBanker, Client, Sends
<1>4. tb \in Tb /\ Sound(tb) /\ (state = "free" => Cleared(tb) /\ Strong(tb))
      /\ jumped \in SUBSET Player /\ overflows \in Nat
  BY IInvParts
<1>5. /\ Sound(tb')
      /\ state = "free" => Cleared(tb') /\ Strong(tb')
      /\ state # "free" =>
            /\ Keeps(tb, tb')
            /\ \A q \in Player \ {p} : tb'.coin[q] = tb.coin[q]
  BY <1>1, <1>2, <1>3, <1>4, AppliedSound
<1>6. UNCHANGED <<state, here, online, mayBet, open, asking, jumped, overflows>>
  BY DEF OnUserApplyBanker
<1>7. ASSUME state = "jetton", overflows = 0
      PROVE  /\ Rate * tb'.all <= tb'.bank.score
             /\ \A q \in Player \ jumped' : Rate * Bet(tb', q) <= tb'.coin[q]
  <2>1. /\ Keeps(tb, tb')
        /\ \A q \in Player \ {p} : tb'.coin[q] = tb.coin[q]
    BY <1>5, <1>7
  <2>2. Rate * tb'.all <= tb'.bank.score
    BY <1>7, <2>1 DEF Keeps, IInv
  <2>3. ASSUME NEW q \in Player \ jumped'
        PROVE  Rate * Bet(tb', q) <= tb'.coin[q]
    <3>1. Bet(tb', q) = Bet(tb, q) BY <2>1 DEF Keeps, Bet
    <3>2. CASE q = p
      <4>1. Bet(tb, p) = 0
        <5>1. ~IsSetJetton(tb, p) BY <1>1 DEF CanApply
        <5>2. ~(Bet(tb, p) > 0) BY <1>7, <5>1 DEF IsSetJetton
        <5>3. Bet(tb, p) \in Nat BY <1>4, BetType
        <5> QED BY <5>2, <5>3
      <4>2. tb'.coin[p] \in Nat BY <1>5 DEF Sound, Tb
      <4> QED BY <3>1, <3>2, <4>1, <4>2, Figures
    <3>3. CASE q # p
      BY <1>6, <1>7, <2>1, <3>1, <3>3 DEF IInv, BettorCovers
    <3> QED BY <3>2, <3>3
  <2> QED BY <2>2, <2>3
<1>8. state = "jetton" => tb'.banker # NoOne BY <1>5 DEF Keeps, IInv
<1> QED BY <1>4, <1>5, <1>6, <1>7, <1>8, TableStep

(* What is locked may come back to the player; nothing else moves.         *)
LEMMA UnlockStep ==
    ASSUME IInv, NEW w, Sound(w), NEW p \in Player,
           tb' = RemoveApplyBanker(w, p),
           w.banker = tb.banker, w.bank.score = tb.bank.score,
           w.all = tb.all, w.bets = tb.bets, w.coin = tb.coin,
           UNCHANGED <<state, here, online, mayBet, open, asking, jumped, overflows>>
    PROVE  IInv' /\ tb'.banker = tb.banker
<1>1. tb \in Tb /\ (state = "free" => Cleared(tb) /\ Strong(tb))
      /\ jumped \in SUBSET Player /\ overflows \in Nat
  BY IInvParts
<1>2. /\ Sound(tb') /\ Keeps(w, tb')
      /\ \A q \in Player : tb'.coin[q] >= w.coin[q]
  BY RemoveSound
<1>3. /\ tb'.banker = tb.banker /\ tb'.bank.score = tb.bank.score
      /\ tb'.all = tb.all /\ tb'.bets = tb.bets
  BY <1>2 DEF Keeps
<1>4. state = "free" => Cleared(tb') /\ Strong(tb')
  BY <1>1, <1>3 DEF Cleared, Strong
<1>5. ASSUME state = "jetton", overflows = 0
      PROVE  /\ Rate * tb'.all <= tb'.bank.score
             /\ \A q \in Player \ jumped' : Rate * Bet(tb', q) <= tb'.coin[q]
  <2>1. Rate * tb'.all <= tb'.bank.score
    BY <1>3, <1>5 DEF IInv
  <2>2. ASSUME NEW q \in Player \ jumped'
        PROVE  Rate * Bet(tb', q) <= tb'.coin[q]
    <3>1. Bet(tb', q) = Bet(tb, q) BY <1>3 DEF Bet
    <3>2. Rate * Bet(tb, q) <= tb.coin[q] BY <1>5 DEF IInv, BettorCovers
    <3>3. Bet(tb, q) \in Nat BY <1>1, BetType
    <3>4. Rate * Bet(tb, q) \in Int BY <3>3, Figures
    <3>5. tb.coin[q] \in Nat /\ tb'.coin[q] \in Nat BY <1>1, <1>2 DEF Sound, Tb
    <3>6. tb'.coin[q] >= tb.coin[q] BY <1>2
    <3> QED BY <3>1, <3>2, <3>4, <3>5, <3>6
  <2> QED BY <2>1, <2>2
<1>6. state = "jetton" => tb'.banker # NoOne BY <1>3 DEF IInv
<1> QED BY <1>1, <1>2, <1>3, <1>4, <1>5, <1>6, TableStep

LEMMA LeaveMark ==
    ASSUME NEW w, Sound(w)
    PROVE  LET v == [w EXCEPT !.bank.leave = TRUE]
           IN  /\ Sound(v) /\ v.banker = w.banker
               /\ v.bank.score = w.bank.score
               /\ v.all = w.all /\ v.bets = w.bets /\ v.coin = w.coin
<1> DEFINE b == [w.bank EXCEPT !.leave = TRUE]
           v == [w EXCEPT !.bank.leave = TRUE]
<1>1. w \in Tb /\ w.bank \in Bank BY DEF Sound, Tb
<1>2. b \in Bank /\ b.score = w.bank.score BY <1>1 DEF Bank
<1>3. v = [w EXCEPT !.bank = b] BY <1>1 DEF Tb
<1> HIDE DEF b, v
<1>4. /\ v \in Tb /\ v.banker = w.banker /\ v.bank = b /\ v.list = w.list
      /\ v.lock = w.lock /\ v.coin = w.coin
      /\ v.all = w.all /\ v.bets = w.bets
  BY <1>1, <1>2, <1>3 DEF Tb
<1>5. Locks(v) BY <1>4 DEF Locks, Sound, IsInApplyList
<1>6. Seat(v) BY <1>2, <1>4 DEF Seat, Sound
<1> QED BY <1>2, <1>4, <1>5, <1>6 DEF Sound, v

LEMMA CancelStep ==
    ASSUME IInv, NEW p \in Player, OnUserCancelBanker(p)
    PROVE  IInv' /\ tb'.banker = tb.banker
<1>1. Sound(tb) BY IInvParts
<1>2. UNCHANGED <<state, here, online, mayBet, open, asking, jumped, overflows>>
  BY DEF OnUserCancelBanker
<1>3. CASE p = tb.banker /\ state # "free"
  <2> DEFINE v == [tb EXCEPT !.bank.leave = TRUE]
  <2>1. tb' = v BY <1>3 DEF OnUserCancelBanker
  <2>2. /\ Sound(v) /\ v.banker = tb.banker
        /\ v.bank.score = tb.bank.score
        /\ v.all = tb.all /\ v.bets = tb.bets /\ v.coin = tb.coin
    BY <1>1, LeaveMark
  <2> HIDE DEF v
  <2>3. RemoveApplyBanker(v, p) = v
    <3>1. ~IsInApplyList(v, p) BY <1>3, <2>2 DEF Sound, Locks
    <3> QED BY <3>1 DEF RemoveApplyBanker
  <2>4. tb' = RemoveApplyBanker(v, p) BY <2>1, <2>3
  <2> QED BY <1>2, <2>2, <2>4, UnlockStep
<1>4. CASE ~(p = tb.banker /\ state # "free")
  <2>1. tb' = RemoveApplyBanker(tb, p) BY <1>4 DEF OnUserCancelBanker
  <2> QED BY <1>1, <1>2, <2>1, UnlockStep
<1> QED BY <1>3, <1>4

LEMMA ControlStep ==
    ASSUME IInv, NEW p \in Player, OnBrcControlApplePlayer(p)
    PROVE  IInv' /\ tb'.banker = tb.banker
<1>1. Sound(tb) BY IInvParts
<1>2. UNCHANGED <<state, here, online, mayBet, open, asking, jumped, overflows>>
  BY DEF OnBrcControlApplePlayer
<1>3. CASE p = tb.banker /\ state # "free"
  <2> DEFINE v == [tb EXCEPT !.bank.leave = TRUE]
  <2>1. /\ Sound(v) /\ v.banker = tb.banker
        /\ v.bank.score = tb.bank.score
        /\ v.all = tb.all /\ v.bets = tb.bets /\ v.coin = tb.coin
    BY <1>1, LeaveMark
  <2>2. tb' = RemoveApplyBanker(v, p) BY <1>3 DEF OnBrcControlApplePlayer
  <2> HIDE DEF v
  <2> QED BY <1>2, <2>1, <2>2, UnlockStep
<1>4. CASE ~(p = tb.banker /\ state # "free")
  <2>1. tb' = RemoveApplyBanker(tb, p) BY <1>4 DEF OnBrcControlApplePlayer
  <2> QED BY <1>1, <1>2, <2>1, UnlockStep
<1> QED BY <1>3, <1>4

(* Whoever pays to be the first in the list counts as having paid.         *)
LEMMA JumpStep ==
    ASSUME IInv, NEW p \in Player, OnUserJumpApplyQueue(p)
    PROVE  IInv' /\ tb'.banker = tb.banker
<1>1. /\ tb \in Tb /\ Sound(tb) /\ jumped \in SUBSET Player /\ overflows \in Nat
      /\ tb.list \in Seq(Player) /\ NoDup(tb.list)
      /\ (state = "free" => Cleared(tb) /\ Strong(tb))
  BY IInvParts DEF Sound, Locks, Tb
<1>2. PICK i \in DOMAIN tb.list :
         /\ tb.list[i] = p
         /\ tb' = [tb EXCEPT
                     !.list = <<p>> \o SubSeq(@, 1, i - 1)
                                    \o SubSeq(@, i + 1, Len(@)),
                     !.coin[p] = @ - JumpCost]
  BY DEF OnUserJumpApplyQueue
<1>3. /\ UNCHANGED <<state, here, online, mayBet, open, asking, overflows>>
      /\ jumped' = jumped \cup {p} /\ tb.coin[p] >= JumpCost
  BY DEF OnUserJumpApplyQueue
<1> DEFINE a == SubSeq(tb.list, 1, i - 1)
           b == SubSeq(tb.list, i + 1, Len(tb.list))
           s == <<p>> \o (a \o b)
           c == [tb.coin EXCEPT ![p] = @ - JumpCost]
<1>4. i \in 1 .. Len(tb.list) /\ Len(tb.list) \in Nat BY <1>1, SeqFacts
<1>5. /\ a \o b \in Seq(Player) /\ NoDup(a \o b)
      /\ \A q : Member(a \o b, q) <=> (q # p /\ Member(tb.list, q))
  BY <1>1, <1>2, RemoveAt
<1>6. <<p>> \o a \o b = s
  <2>1. a \in Seq(Player)
    <3>1. i - 1 \in Nat /\ i - 1 <= Len(tb.list) /\ 1 <= (i - 1) + 1 BY <1>4
    <3> QED BY <1>1, <3>1, Sliced
  <2>2. b \in Seq(Player)
    <3>1. i + 1 \in Nat \ {0} /\ i + 1 <= Len(tb.list) + 1 BY <1>4
    <3> QED BY <1>1, <1>4, <3>1, Sliced
  <2>3. <<p>> \in Seq(Player) OBVIOUS
  <2> HIDE DEF a, b
  <2> QED BY <2>1, <2>2, <2>3, ConcatAssociative
<1>7. /\ s \in Seq(Player) /\ NoDup(s)
      /\ \A q : Member(s, q) <=> (q = p \/ Member(a \o b, q))
  <2>1. ~Member(a \o b, p) BY <1>5
  <2> HIDE DEF a, b
  <2> QED BY <1>5, <2>1, Prefixed
<1>8. \A q \in Player : Member(s, q) <=> Member(tb.list, q)
  <2>1. Member(tb.list, p) BY <1>2 DEF Member
  <2> QED BY <1>5, <1>7, <2>1
<1>9. tb' = [tb EXCEPT !.list = s, !.coin = c] BY <1>1, <1>2, <1>6 DEF Tb
<1>10. /\ c \in [Player -> Nat]
       /\ \A q \in Player \ {p} : c[q] = tb.coin[q]
  <2>1. tb.coin \in [Player -> Nat] BY <1>1 DEF Tb
  <2>2. tb.coin[p] - JumpCost \in Nat BY <1>3, <2>1, Figures
  <2> QED BY <2>1, <2>2
<1> HIDE DEF a, b, s, c
<1>11. /\ tb' \in Tb /\ tb'.list = s /\ tb'.coin = c /\ tb'.lock = tb.lock
       /\ Keeps(tb, tb')
  BY <1>1, <1>7, <1>9, <1>10 DEF Tb, Keeps
<1>12. Locks(tb')
  <2>1. \A q \in Player : IsInApplyList(tb', q) <=> IsInApplyList(tb, q)
    BY <1>8, <1>11, InList
  <2> QED BY <1>1, <1>7, <1>11, <2>1 DEF Sound, Locks, Keeps
<1>13. Seat(tb')
  <2> SUFFICES ASSUME tb'.banker # NoOne
               PROVE  tb'.banker \in here /\ tb'.bank.score <= tb'.coin[tb'.banker]
    BY DEF Seat
  <2>1. tb'.banker = tb.banker /\ tb'.bank = tb.bank BY <1>11 DEF Keeps
  <2>2. tb.banker # p
    <3>1. IsInApplyList(tb, p) BY <1>2 DEF IsInApplyList
    <3> QED BY <1>1, <3>1 DEF Sound, Locks
  <2>3. tb.banker \in Player \ {p} BY <1>1, <2>1, <2>2 DEF Tb
  <2> QED BY <1>1, <1>10, <1>11, <2>1, <2>3 DEF Sound, Seat
<1>14. Sound(tb') BY <1>11, <1>12, <1>13 DEF Sound
<1>15. state = "free" => Cleared(tb') /\ Strong(tb')
  BY <1>1, <1>11 DEF Keeps, Cleared, Strong
<1>16. ASSUME state = "jetton", overflows = 0
       PROVE  /\ Rate * tb'.all <= tb'.bank.score
              /\ \A q \in Player \ jumped' : Rate * Bet(tb', q) <= tb'.coin[q]
  BY <1>3, <1>10, <1>11, <1>16 DEF Keeps, IInv, BettorCovers, Bet
<1>17. tb'.banker = tb.banker BY <1>11 DEF Keeps
<1>18. state = "jetton" => tb'.banker # NoOne BY <1>17 DEF IInv
<1> QED BY <1>1, <1>3, <1>14, <1>15, <1>16, <1>17, <1>18, TableStep

-----------------------------------------------------------------------------
(* The ticks.                                                              *)
LEMMA StartRoundStep ==
    ASSUME IInv, StartRound
    PROVE  IInv'
<1>1. /\ tb \in Tb /\ Sound(tb) /\ Cleared(tb) /\ Strong(tb)
      /\ tb.banker # NoOne
  BY IInvParts DEF StartRound
<1>2. tb' = tb /\ here' = here /\ state' = "jetton" /\ ~asking'.on
      /\ asking' = asking /\ jumped' = {} /\ overflows' = overflows
  BY DEF StartRound
<1>3. TypeOK' BY <1>2 DEF IInv, TypeOK, StartRound, State
<1>4. Locks(tb)' /\ Seat(tb)'
  BY <1>2 DEF IInv, Locks, Seat, IsInApplyList
<1>5. tb.all = 0 /\ tb.bank.score >= Condition /\ tb.bank.score \in Int
  BY <1>1 DEF Cleared, Strong, Tb, Bank
<1>6. Rate * tb.all <= tb.bank.score BY <1>5, Figures
<1>7. BettorCovers'
  <2> SUFFICES ASSUME NEW p \in Player
               PROVE  Rate * Bet(tb, p)' <= tb'.coin[p]
    BY DEF BettorCovers
  <2>1. tb'.bets[p] = NoBets BY <1>1, <1>2 DEF Cleared
  <2>2. Bet(tb, p)' = 0 BY <2>1, NoBetsTotal DEF Bet
  <2>3. tb'.coin[p] \in Nat BY <1>1, <1>2 DEF Tb
  <2> QED BY <2>2, <2>3, Figures
<1> QED BY <1>1, <1>2, <1>3, <1>4, <1>6, <1>7 DEF IInv

LEMMA CheckRobotStep ==
    ASSUME IInv, CheckRobotApplyBanker
    PROVE  IInv'
<1>1. /\ UNCHANGED <<state, here, tb, online, mayBet, open, jumped, overflows>>
      /\ state = "free"
      /\ asking' = [on |-> TRUE, left |-> IF Len(tb.list) >= RobotApplySize
                                          THEN {} ELSE Robot \cap here]
  BY DEF CheckRobotApplyBanker
<1>2. asking'.on = TRUE /\ asking'.left \subseteq Robot \cap here
      /\ asking' \in [on : BOOLEAN, left : SUBSET Robot]
  BY <1>1
<1>3. TypeOK' BY <1>1, <1>2 DEF IInv, TypeOK
<1>4. Locks(tb)' /\ Seat(tb)'
  BY <1>1 DEF IInv, Locks, Seat, IsInApplyList
<1>5. Cleared(tb)' /\ Strong(tb)' BY <1>1 DEF IInv, Cleared, Strong
<1>6. BettorCovers' BY <1>1 DEF BettorCovers
<1> QED BY <1>1, <1>2, <1>3, <1>4, <1>5, <1>6 DEF IInv

(* A step between two rounds that leaves a record as it has to be then.    *)
LEMMA FreeStep ==
    ASSUME IInv, state' = "free", Sound(tb'), Cleared(tb'), Strong(tb'),
           UNCHANGED <<here, online, mayBet, open, jumped, overflows>>,
           asking' \in [on : BOOLEAN, left : SUBSET Robot],
           asking'.left \subseteq here, ~asking'.on => asking'.left = {}
    PROVE  IInv'
<1>1. TypeOK' BY DEF IInv, TypeOK, Sound, State
<1>2. Locks(tb)' /\ Seat(tb)' BY DEF Sound, Locks, Seat, IsInApplyList
<1>3. Cleared(tb)' /\ Strong(tb)' BY DEF Cleared, Strong
<1>4. BettorCovers' BY DEF BettorCovers
<1> QED BY <1>1, <1>2, <1>3, <1>4 DEF IInv

LEMMA RobotBuyinType ==
    ASSUME NEW coin \in Nat, NEW n \in RobotBuyin(coin)
    PROVE  n \in Nat /\ (n \div Chip) * Chip \in Nat
<1>1. n \in Nat
  <2>1. CASE coin < Condition BY <2>1, Figures DEF RobotBuyin
  <2>2. CASE coin >= Condition /\ coin < 2 * Condition
    BY <2>2, Figures DEF RobotBuyin
  <2>3. CASE coin >= 2 * Condition
    <3>1. Min2(coin, Limit) \in Int BY Figures DEF Min2
    <3>2. n \in 2 * Condition .. Min2(coin, Limit)
      BY <2>3, Figures DEF RobotBuyin
    <3> QED BY <3>1, <3>2, Figures
  <2> QED BY <2>1, <2>2, <2>3, Figures
<1>2. n \div Chip \in Nat BY <1>1, Figures
<1> QED BY <1>1, <1>2, Figures

LEMMA AskRobotStep ==
    ASSUME IInv, NEW r \in Robot, AskRobot(r)
    PROVE  IInv'
<1>1. /\ tb \in Tb /\ Sound(tb) /\ r \in Player /\ r \in here
      /\ asking.on /\ state = "free" /\ Cleared(tb) /\ Strong(tb)
      /\ asking \in [on : BOOLEAN, left : SUBSET Robot]
  BY IInvParts, Figures DEF AskRobot, IInv
<1>2. PICK n \in RobotBuyin(tb.coin[r]) :
         LET m == (n \div Chip) * Chip
         IN  IF n > 0 /\ CanApply(tb, r, m)
             THEN tb' \in Applied(tb, r, m, n >= 2 * Condition)
             ELSE tb' = tb
  BY DEF AskRobot
<1> DEFINE m == (n \div Chip) * Chip
           a == n >= 2 * Condition
<1>3. tb.coin[r] \in Nat BY <1>1 DEF Tb
<1>4. n \in Nat /\ m \in Nat /\ a \in BOOLEAN BY <1>3, RobotBuyinType
<1>5. tb' = tb \/ (CanApply(tb, r, m) /\ tb' \in Applied(tb, r, m, a))
  BY <1>2
<1> HIDE DEF m, a
<1>6. Sound(tb') /\ Cleared(tb') /\ Strong(tb')
  <2>1. CASE tb' = tb BY <1>1, <2>1
  <2>2. CASE CanApply(tb, r, m) /\ tb' \in Applied(tb, r, m, a)
    BY <1>1, <1>4, <2>2, AppliedSound
  <2> QED BY <1>5, <2>1, <2>2
<1>7. /\ UNCHANGED <<state, here, online, mayBet, open, jumped, overflows>>
      /\ asking' = [asking EXCEPT !.left =
                      IF Len(tb'.list) > RobotApplySize THEN {} ELSE @ \ {r}]
  BY DEF AskRobot
<1>8. /\ asking'.on /\ asking'.left \subseteq asking.left
      /\ asking' \in [on : BOOLEAN, left : SUBSET Robot]
  BY <1>1, <1>7
<1>9. asking'.left \subseteq here BY <1>8 DEF IInv
<1> QED BY <1>1, <1>6, <1>7, <1>8, <1>9, FreeStep

LEMMA WithoutBankerStep ==
    ASSUME IInv, OnGameStartWithoutBanker
    PROVE  IInv'
<1>1. /\ Sound(tb) /\ state = "free" /\ Cleared(tb)
  BY IInvParts DEF OnGameStartWithoutBanker, IInv
<1>2. /\ tb' = ChangeBanker(tb) /\ asking' = [on |-> FALSE, left |-> {}]
      /\ UNCHANGED <<state, here, online, mayBet, open, jumped, overflows>>
  BY DEF OnGameStartWithoutBanker
<1>3. Sound(tb') /\ Cleared(tb') /\ Strong(tb')
  BY <1>1, <1>2, ChangeBankerSound
<1>4. /\ asking' \in [on : BOOLEAN, left : SUBSET Robot]
      /\ asking'.left = {}
  BY <1>2
<1> QED BY <1>1, <1>2, <1>3, <1>4, FreeStep

LEMMA EndRoundStep ==
    ASSUME IInv, EndRound
    PROVE  IInv' /\ tb'.banker = tb.banker
<1>1. /\ Sound(tb) /\ here \subseteq Player /\ state = "jetton"
      /\ tb.banker # NoOne
  BY IInvParts DEF EndRound, IInv
<1>2. PICK m \in Outcome :
         tb' = Settle(tb, m) \/ tb' = [Settle(tb, m) EXCEPT !.bank.leave = TRUE]
  BY DEF EndRound
<1> DEFINE w == Settle(tb, m)
<1>3. Sound(w) /\ w.banker = tb.banker BY <1>1, SettleSound
<1> HIDE DEF w
<1>4. Sound(tb') /\ tb'.banker = tb.banker
  <2>1. CASE tb' = w BY <1>3, <2>1
  <2>2. CASE tb' = [w EXCEPT !.bank.leave = TRUE]
    BY <1>3, <2>2, LeaveMark
  <2> QED BY <1>2, <2>1, <2>2 DEF w
<1>5. /\ state' = "end" /\ ~asking.on
      /\ UNCHANGED <<here, online, mayBet, open, asking, jumped, overflows>>
  BY DEF EndRound
<1>6. TypeOK' BY <1>4, <1>5 DEF IInv, TypeOK, Sound, State
<1>7. Locks(tb)' /\ Seat(tb)'
  BY <1>4, <1>5 DEF Sound, Locks, Seat, IsInApplyList
<1>8. BettorCovers' BY <1>5 DEF BettorCovers
<1> QED BY <1>4, <1>5, <1>6, <1>7, <1>8 DEF IInv

LEMMA ChangeTurnStep ==
    ASSUME IInv, ChangeTurn
    PROVE  IInv'
<1> DEFINE w == ClearTurnGameData(tb)
<1>1. tb \in Tb /\ Sound(tb) /\ asking \in [on : BOOLEAN, left : SUBSET Robot]
  BY IInvParts
<1>2. /\ w \in Tb /\ w.banker = tb.banker /\ w.bank = tb.bank
      /\ w.list = tb.list /\ w.lock = tb.lock /\ w.coin = tb.coin
      /\ Cleared(w)
  BY <1>1, NoBetsType DEF ClearTurnGameData, Tb, Cleared
<1> HIDE DEF w
<1>3. Sound(w)
  BY <1>1, <1>2 DEF Sound, Locks, Seat, IsInApplyList
<1>4. /\ tb' = ChangeBanker(w) /\ state' = "free" /\ ~asking.on
      /\ UNCHANGED <<here, online, mayBet, open, asking, jumped, overflows>>
  BY DEF ChangeTurn, w
<1>5. Sound(tb') /\ Cleared(tb') /\ Strong(tb')
  BY <1>2, <1>3, <1>4, ChangeBankerSound
<1>6. asking'.left = {} BY <1>4 DEF IInv
<1> QED BY <1>1, <1>4, <1>5, <1>6, FreeStep

LEMMA OpenStep ==
    ASSUME IInv, CheckRoomCanGameStart
    PROVE  IInv'
<1>1. UNCHANGED <<state, here, tb, online, mayBet, asking, jumped, overflows>>
      /\ open' = TRUE
  BY DEF CheckRoomCanGameStart
<1>2. TypeOK' BY <1>1 DEF IInv, TypeOK
<1>3. Locks(tb)' /\ Seat(tb)' BY <1>1 DEF IInv, Locks, Seat, IsInApplyList
<1>4. state' = "free" => Cleared(tb)' /\ Strong(tb)'
  BY <1>1 DEF IInv, Cleared, Strong
<1>5. BettorCovers' BY <1>1 DEF IInv, BettorCovers, Bet
<1> QED BY <1>1, <1>2, <1>3, <1>4, <1>5 DEF IInv

LEMMA StutterStep ==
    ASSUME IInv, UNCHANGED vars
    PROVE  IInv'
<1>1. UNCHANGED <<state, here, tb, online, mayBet, open, asking, jumped, overflows>>
  BY DEF vars
<1>2. TypeOK' BY <1>1 DEF IInv, TypeOK
<1>3. Locks(tb)' /\ Seat(tb)' BY <1>1 DEF IInv, Locks, Seat, IsInApplyList
<1>4. state' = "free" => Cleared(tb)' /\ Strong(tb)'
  BY <1>1 DEF IInv, Cleared, Strong
<1>5. BettorCovers' BY <1>1 DEF IInv, BettorCovers, Bet
<1> QED BY <1>1, <1>2, <1>3, <1>4, <1>5 DEF IInv

LEMMA HandlerStep ==
    ASSUME IInv, NEW p \in Player, Handler(p)
    PROVE  IInv'
<1>1. CASE EnterTable(p) BY <1>1, EnterStep
<1>2. CASE LeaveTable(p)
  <2>1. /\ ~asking.on /\ CanLeaveTable(tb, p) /\ OnLeave(p)
        /\ UNCHANGED <<state, online, open, asking, jumped, overflows>>
    BY <1>2 DEF LeaveTable, Sends
  <2>2. online' \subseteq Player BY <2>1, IInvParts
  <2> QED BY <2>1, <2>2, LeaveStep
<1>3. CASE SetNetStateOff(p)
  <2>1. /\ ~asking.on /\ online' \subseteq Player
        /\ UNCHANGED <<state, open, asking, jumped, overflows>>
    BY <1>3, IInvParts DEF SetNetStateOff, Client, Sends
  <2>2. CASE CanLeaveTable(tb, p)
    <3>1. OnLeave(p) BY <1>3, <2>2 DEF SetNetStateOff
    <3> QED BY <2>1, <2>2, <3>1, LeaveStep
  <2>3. CASE ~CanLeaveTable(tb, p)
    <3>1. UNCHANGED <<here, mayBet, tb>> BY <1>3, <2>3 DEF SetNetStateOff
    <3>2. TypeOK' BY <2>1, <3>1 DEF IInv, TypeOK
    <3>3. Locks(tb)' /\ Seat(tb)'
      BY <3>1 DEF IInv, Locks, Seat, IsInApplyList
    <3>4. state' = "free" => Cleared(tb)' /\ Strong(tb)'
      BY <2>1, <3>1 DEF IInv, Cleared, Strong
    <3>5. BettorCovers' BY <2>1, <3>1 DEF IInv, BettorCovers, Bet
    <3> QED BY <2>1, <3>1, <3>2, <3>3, <3>4, <3>5 DEF IInv
  <2> QED BY <2>2, <2>3
<1>4. CASE SetNetStateOn(p)
  <2>1. UNCHANGED <<state, here, tb, mayBet, open, asking, jumped, overflows>>
        /\ online' = online \cup {p}
    BY <1>4 DEF SetNetStateOn
  <2>2. TypeOK' BY <2>1 DEF IInv, TypeOK
  <2>3. Locks(tb)' /\ Seat(tb)' BY <2>1 DEF IInv, Locks, Seat, IsInApplyList
  <2>4. state' = "free" => Cleared(tb)' /\ Strong(tb)'
    BY <2>1 DEF IInv, Cleared, Strong
  <2>5. BettorCovers' BY <2>1 DEF IInv, BettorCovers, Bet
  <2> QED BY <2>1, <2>2, <2>3, <2>4, <2>5 DEF IInv
<1>5. CASE NeedRecover(p)
  <2>1. /\ ~asking.on /\ CanLeaveTable(tb, p) /\ OnLeave(p)
        /\ UNCHANGED <<state, online, open, asking, jumped, overflows>>
    BY <1>5 DEF NeedRecover
  <2>2. online' \subseteq Player BY <2>1, IInvParts
  <2> QED BY <2>1, <2>2, LeaveStep
<1>6. CASE OnUserPlaceJetton(p) BY <1>6, PlaceJettonStep
<1>7. CASE OnUserContinuousPressure(p) BY <1>7, PressureStep
<1>8. CASE OnUserApplyBanker(p) BY <1>8, ApplyStep
<1>9. CASE OnUserJumpApplyQueue(p) BY <1>9, JumpStep
<1>10. CASE OnUserCancelBanker(p) BY <1>10, CancelStep
<1>11. CASE OnBrcControlApplePlayer(p) BY <1>11, ControlStep
<1> QED BY <1>1, <1>2, <1>3, <1>4, <1>5, <1>6, <1>7, <1>8, <1>9, <1>10, <1>11
        DEF Handler

LEMMA NextStep ==
    ASSUME IInv, [Next]_vars
    PROVE  IInv'
<1>1. CASE \E p \in Player : Handler(p) BY <1>1, HandlerStep
<1>2. CASE OnTimeTick
  <2>1. CASE StartRound BY <2>1, StartRoundStep
  <2>2. CASE EndRound BY <2>2, EndRoundStep
  <2>3. CASE ChangeTurn BY <2>3, ChangeTurnStep
  <2>4. CASE CheckRobotApplyBanker BY <2>4, CheckRobotStep
  <2>5. CASE OnGameStartWithoutBanker BY <2>5, WithoutBankerStep
  <2>6. CASE \E r \in Robot : AskRobot(r) BY <2>6, AskRobotStep
  <2> QED BY <1>2, <2>1, <2>2, <2>3, <2>4, <2>5, <2>6 DEF OnTimeTick
<1>3. CASE CheckRoomCanGameStart BY <1>3, OpenStep
<1>4. CASE UNCHANGED vars BY <1>4, StutterStep
<1> QED BY <1>1, <1>2, <1>3, <1>4 DEF Next

LEMMA Invariance == Spec => []IInv
<1>1. Init => IInv BY InitIInv
<1>2. IInv /\ [Next]_vars => IInv' BY NextStep
<1> QED BY <1>1, <1>2, PTL DEF Spec

-----------------------------------------------------------------------------
(* The table's money, its queue and its banker have the types declared.    *)
THEOREM TableTypeCorrect == Spec => []TypeOK
<1>1. IInv => TypeOK BY DEF IInv
<1> QED BY <1>1, Invariance, PTL

(* What is locked for the queue belongs to those in it, each there once,   *)
(* at the table and not the banker (LockApplyScore, RemoveApplyBanker,     *)
(* TakeTurns, ChangeBanker, CanLeaveTable).                                *)
THEOREM LocksAreConsistent == Spec => []LockConsistent
<1>1. IInv => LockConsistent BY DEF IInv, Locks, NoDup, LockConsistent
<1> QED BY <1>1, Invariance, PTL

(* The banker holds its score, and the score covers every bet taken at the *)
(* highest multiple, until a request's sum has wrapped (GetUserMaxJetton,  *)
(* AutoAddBankerScore, OnUserContinuousPressure).                          *)
THEOREM BankerAlwaysCovers == Spec => []BankerCovers
<1>1. IInv => BankerCovers
  <2>1. IInv => (overflows = 0 \/ overflows > 0) BY DEF IInv, TypeOK
  <2> QED BY <2>1 DEF IInv, Seat, BankerCovers
<1> QED BY <1>1, Invariance, PTL

(* Who has bet and not paid for the queue since covers its bets, until a   *)
(* request's sum has wrapped (GetUserMaxJetton, OnUserApplyBanker).        *)
THEOREM BettorsCover == Spec => []BettorCovers
<1>1. IInv => BettorCovers BY DEF IInv
<1> QED BY <1>1, Invariance, PTL

(* The banker is replaced between two rounds only: whatever else is done   *)
(* to the list, the locks and the bets keeps it (TakeTurns, ChangeBanker,  *)
(* OnUserApplyBanker).                                                     *)
THEOREM BankerIsKept == Spec => BankerStays
<1> DEFINE A == tb'.banker # tb.banker =>
                  state = "free" \/ (state = "end" /\ state' = "free")
<1>1. ASSUME IInv, NEW p \in Player, Handler(p) PROVE A
  <2>1. CASE EnterTable(p) \/ SetNetStateOn(p)
    BY <2>1 DEF EnterTable, SetNetStateOn
  <2>2. CASE LeaveTable(p) \/ SetNetStateOff(p) \/ NeedRecover(p)
    <3>1. CASE tb' = tb BY <3>1
    <3>2. CASE CanLeaveTable(tb, p) /\ OnLeave(p)
      <4>1. RemoveApplyBanker(tb, p) = tb
        BY <3>2 DEF CanLeaveTable, RemoveApplyBanker
      <4>2. tb' = [tb EXCEPT !.bets = [@ EXCEPT ![p] = NoBets]]
        BY <3>2, <4>1 DEF OnLeave
      <4>3. tb \in Tb BY <1>1, IInvParts
      <4> QED BY <4>2, <4>3 DEF Tb
    <3> QED BY <2>2, <3>1, <3>2 DEF LeaveTable, SetNetStateOff, NeedRecover
  <2>3. CASE OnUserPlaceJetton(p) \/ OnUserContinuousPressure(p)
    <3>1. \A b : AddBets(tb, p, b).banker = tb.banker
      <4>1. tb \in Tb BY <1>1, IInvParts
      <4> QED BY <4>1 DEF AddBets, Tb
    <3>2. CASE OnUserPlaceJetton(p)
      <4>1. \E b : tb' = AddBets(tb, p, b) BY <3>2 DEF OnUserPlaceJetton
      <4> QED BY <3>1, <4>1
    <3>3. CASE OnUserContinuousPressure(p)
      <4>1. \E b : tb' = AddBets(tb, p, b) BY <3>3 DEF OnUserContinuousPressure
      <4> QED BY <3>1, <4>1
    <3> QED BY <2>3, <3>2, <3>3
  <2>4. CASE OnUserApplyBanker(p)
    <3>1. PICK n \in 1 .. Limit, auto \in BOOLEAN :
             CanApply(tb, p, n) /\ tb' \in Applied(tb, p, n, auto)
      BY <2>4 DEF OnUserApplyBanker
    <3>2. n \in Nat /\ p \in here
      BY <2>4, Figures DEF OnUserApplyBanker, Client, Sends
    <3>3. state # "free" => Keeps(tb, tb')
      BY <1>1, <3>1, <3>2, IInvParts, AppliedSound
    <3> QED BY <3>3 DEF Keeps
  <2>5. CASE OnUserJumpApplyQueue(p) BY <1>1, <2>5, JumpStep
  <2>6. CASE OnUserCancelBanker(p) BY <1>1, <2>6, CancelStep
  <2>7. CASE OnBrcControlApplePlayer(p) BY <1>1, <2>7, ControlStep
  <2> QED BY <1>1, <2>1, <2>2, <2>3, <2>4, <2>5, <2>6, <2>7 DEF Handler
<1>2. ASSUME IInv, OnTimeTick PROVE A
  <2>1. CASE StartRound BY <2>1 DEF StartRound
  <2>2. CASE EndRound BY <1>2, <2>2, EndRoundStep
  <2>3. CASE ChangeTurn BY <2>3 DEF ChangeTurn
  <2>4. CASE CheckRobotApplyBanker BY <2>4 DEF CheckRobotApplyBanker
  <2>5. CASE OnGameStartWithoutBanker
    BY <1>2, <2>5 DEF OnGameStartWithoutBanker, IInv
  <2>6. CASE \E r \in Robot : AskRobot(r)
    BY <1>2, <2>6 DEF AskRobot, IInv
  <2> QED BY <1>2, <2>1, <2>2, <2>3, <2>4, <2>5, <2>6 DEF OnTimeTick
<1>3. ASSUME IInv, [Next]_vars PROVE [A]_vars
  <2>1. CASE CheckRoomCanGameStart BY <2>1 DEF CheckRoomCanGameStart
  <2> QED BY <1>1, <1>2, <1>3, <2>1 DEF Next
<1> QED BY <1>3, Invariance, PTL DEF Spec, BankerStays
=============================================================================
