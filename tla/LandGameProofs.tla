--------------------------- MODULE LandGameProofs ---------------------------
(***************************************************************************)
(* Proofs about LandGame, for every deck, every set of deals and every     *)
(* rule of play.  The invariants are not inductive alone: that the         *)
(* landlord has bid most rests on the order of the bids, and that every    *)
(* player holds cards on the deal: BidsRight adds what is missing.  And    *)
(* that the entries of the deck are kept apart (EntriesApart) must also be *)
(* known when some are no cards: the turn and the settlement rest on it,   *)
(* and the next deck is again one of cards only if it has all entries.     *)
(***************************************************************************)
EXTENDS LandGame, TLAPS

(* One seat leads the bids, and all others have bid less.                  *)
Leads(calls, most) ==
    /\ \A c \in Seat : calls[c] <= most
    /\ most > 0 => \E b \in Seat : /\ calls[b] = most
                                   /\ \A c \in Seat \ {b} : calls[c] < most

(* How many seats have had their turn to bid before c has.                 *)
Turn(c) == (c + 3 - firstUser) % 3

(* While the bids go on, the leader is unique, nobody has bid 3, and who   *)
(* has not bid yet stands at 0; everybody holds cards.                     *)
BidsRight ==
    /\ state = "free" => callScore = Zero /\ curCallScore = 0
                         /\ bankerUser = INVALID
    /\ state = "call" =>
        /\ firstUser \in Seat /\ curCallScore < 3
        /\ Leads(callScore, curCallScore)
        /\ \A c \in Seat : Turn(c) >= Turn(curUser) => callScore[c] = 0
        /\ turnCard = {} /\ \A c \in Seat : hand[c] # {}

(* What is to beat has been played, while every entry played is a card.    *)
PlayedIsOut == ~blank /\ state = "play" => turnCard \subseteq outCards

IInv ==
    TypeOK /\ EntriesApart /\ PlayedIsOut /\ TurnRight /\ LandlordBidMost /\ BidsRight

-----------------------------------------------------------------------------
(* Amounts.                                                                *)

LEMMA NatProduct ==
    ASSUME NEW a \in Nat, NEW b \in Nat
    PROVE  a * b \in Nat
OBVIOUS

(* A balance stays a natural number.                                       *)
LEMMA ChangedType ==
    ASSUME NEW a \in Nat, NEW b \in Int
    PROVE  Changed(a, b) \in Nat
BY DEF Changed, Max

(* The fee is part of what is won.                                         *)
LEMMA EndFeeType ==
    ASSUME NEW a \in Int
    PROVE  /\ EndFee(a) \in Nat
           /\ a > 0 => EndFee(a) <= a
           /\ a <= 0 => EndFee(a) = 0
<1>1. CASE ~(FeeType = "win" /\ a > 0)
  BY <1>1 DEF EndFee
<1>2. CASE FeeType = "win" /\ a > 0
  <2>1. FeeRate \in Int /\ 0 <= FeeRate /\ FeeRate <= 100
    BY MoneyAssumption
  <2> DEFINE x == a * FeeRate
  <2>2. x \in Int /\ 0 <= x /\ x <= a * 100
    BY <1>2, <2>1
  <2> HIDE DEF x
  <2>3. x \div 100 \in Nat /\ x \div 100 <= a
    BY <2>2
  <2>4. EndFee(a) = x \div 100
    BY <1>2 DEF EndFee, x
  <2> QED BY <2>3, <2>4, <1>2
<1> QED BY <1>1, <1>2

(* A stake is covered by the farmer, and two of them by the landlord.      *)
LEMMA StakeCovered ==
    ASSUME score \in [Seat -> Nat], bankerUser \in Seat,
           NEW c \in Seat, NEW times \in Nat
    PROVE  /\ Stake(c, times) \in Nat
           /\ Stake(c, times) <= score[c]
           /\ 2 * Stake(c, times) <= score[bankerUser]
<1>1. BaseScore * times \in Nat
  BY NatProduct, MoneyAssumption
<1> DEFINE h == score[bankerUser] \div 2
<1>2. h \in Nat /\ 2 * h <= score[bankerUser]
  <2>1. score[bankerUser] \in Nat
    OBVIOUS
  <2> QED BY <2>1
<1>3. score[c] \in Nat
  OBVIOUS
<1> DEFINE x == BaseScore * times
<1>4. Stake(c, times) = Min(x, Min(score[c], h))
  BY DEF Stake
<1> HIDE DEF x, h
<1>5. x \in Nat
  BY <1>1 DEF x
<1>6. /\ Min(x, Min(score[c], h)) \in Nat
      /\ Min(x, Min(score[c], h)) <= score[c]
      /\ Min(x, Min(score[c], h)) <= h
  BY <1>2, <1>3, <1>5 DEF Min
<1>7. score[bankerUser] \in Nat
  OBVIOUS
<1> DEFINE s == Stake(c, times)
<1>8. s \in Nat /\ s <= score[c] /\ s <= h
  BY <1>4, <1>6
<1> HIDE DEF s
<1>9. 2 * s <= score[bankerUser]
  BY <1>8, <1>2, <1>7
<1> QED BY <1>8, <1>9 DEF s

(* What is won is an integer, nobody loses more than it holds, the amounts *)
(* add up to nothing, and only the side of w gains.                        *)
LEMMA CalcScoreRight ==
    ASSUME score \in [Seat -> Nat], bankerUser \in Seat,
           NEW w \in Seat, NEW times \in Nat
    PROVE  LET won == CalcScore(w, times) IN
           /\ won \in [Seat -> Int]
           /\ \A c \in Seat : score[c] + won[c] >= 0
           /\ won[0] + won[1] + won[2] = 0
           /\ \A c \in Seat :
                IF c # bankerUser <=> w # bankerUser
                THEN won[c] >= 0 ELSE won[c] <= 0
<1> DEFINE s == [c \in Seat |-> Stake(c, times)]
<1>1. /\ s \in [Seat -> Nat]
      /\ \A c \in Seat : s[c] <= score[c] /\ 2 * s[c] <= score[bankerUser]
  BY StakeCovered
<1> DEFINE farmers == [c \in Seat |-> IF c = bankerUser THEN 0
                        ELSE IF w = bankerUser THEN -s[c] ELSE s[c]]
<1>2. CalcScore(w, times) = [farmers EXCEPT
            ![bankerUser] = -(farmers[0] + farmers[1] + farmers[2])]
  BY DEF CalcScore
<1> HIDE DEF s
<1>3. farmers \in [Seat -> Int]
  BY <1>1
<1>4. \A c \in Seat : farmers[c] = IF c = bankerUser THEN 0
                        ELSE IF w = bankerUser THEN -s[c] ELSE s[c]
  OBVIOUS
<1> HIDE DEF farmers
<1> DEFINE won == [farmers EXCEPT
            ![bankerUser] = -(farmers[0] + farmers[1] + farmers[2])]
<1>5. won \in [Seat -> Int]
  BY <1>3 DEF Seat
<1>6. /\ \A c \in Seat : c # bankerUser => won[c] = farmers[c]
      /\ won[bankerUser] = -(farmers[0] + farmers[1] + farmers[2])
  BY <1>3
<1> HIDE DEF won
<1>7. \A c \in Seat : c # bankerUser =>
        /\ s[c] \in Nat /\ s[c] <= score[c] /\ score[c] \in Nat
        /\ w = bankerUser => won[c] = -s[c]
        /\ w # bankerUser => won[c] = s[c]
  BY <1>1, <1>4, <1>6
<1>8. score[bankerUser] \in Nat
  OBVIOUS
<1>9. /\ w = bankerUser => won[bankerUser] >= 0
      /\ w # bankerUser => /\ won[bankerUser] <= 0
                           /\ score[bankerUser] + won[bankerUser] >= 0
      /\ won[0] + won[1] + won[2] = 0
  <2>1. CASE bankerUser = 0
    BY <2>1, <1>1, <1>4, <1>6, <1>8 DEF Seat
  <2>2. CASE bankerUser = 1
    BY <2>2, <1>1, <1>4, <1>6, <1>8 DEF Seat
  <2>3. CASE bankerUser = 2
    BY <2>3, <1>1, <1>4, <1>6, <1>8 DEF Seat
  <2> QED BY <2>1, <2>2, <2>3 DEF Seat
<1>10. \A c \in Seat : score[c] + won[c] >= 0
  BY <1>5, <1>7, <1>8, <1>9
<1>11. \A c \in Seat : IF c # bankerUser <=> w # bankerUser
                       THEN won[c] >= 0 ELSE won[c] <= 0
  BY <1>5, <1>7, <1>8, <1>9
<1>12. CalcScore(w, times) = won
  BY <1>2 DEF won
<1> QED BY <1>5, <1>9, <1>10, <1>11, <1>12

-----------------------------------------------------------------------------
(* The bids.                                                               *)

(* Where one seat leads, it is the highest bidder that is found.           *)
LEMMA MaxCallerLeads ==
    ASSUME NEW calls \in [Seat -> Nat], NEW b \in Seat, firstUser \in Seat,
           \A c \in Seat \ {b} : calls[c] < calls[b]
    PROVE  MaxCaller(calls) = b
<1> DEFINE turn(c) == (c + 3 - firstUser) % 3
           Best(c) == \A d \in Seat : \/ calls[d] < calls[c]
                                      \/ calls[d] = calls[c] /\ turn(c) <= turn(d)
<1>1. Best(b)
  <2>1. turn(b) \in Int
    BY DEF Seat
  <2>2. calls[b] \in Nat
    OBVIOUS
  <2> QED BY <2>1, <2>2
<1>2. \A c \in Seat : Best(c) => c = b
  BY DEF Seat
<1>3. MaxCaller(calls) = CHOOSE c \in Seat : Best(c)
  BY DEF MaxCaller
<1> HIDE DEF Best
<1> QED BY <1>1, <1>2, <1>3

(* Where nobody has bid, the seat that is found has not bid either.        *)
LEMMA MaxCallerNone ==
    ASSUME NEW calls \in [Seat -> Nat], firstUser \in Seat,
           \A c \in Seat : calls[c] = 0
    PROVE  calls[MaxCaller(calls)] = 0
<1> DEFINE turn(c) == (c + 3 - firstUser) % 3
           Best(c) == \A d \in Seat : \/ calls[d] < calls[c]
                                      \/ calls[d] = calls[c] /\ turn(c) <= turn(d)
<1>1. Best(firstUser)
  <2>1. turn(firstUser) = 0
    BY DEF Seat
  <2>2. \A d \in Seat : turn(d) \in Nat
    BY DEF Seat
  <2> QED BY <2>1, <2>2
<1>2. MaxCaller(calls) = CHOOSE c \in Seat : Best(c)
  BY DEF MaxCaller
<1> HIDE DEF Best
<1>3. MaxCaller(calls) \in Seat
  BY <1>1, <1>2
<1> QED BY <1>3

(* A bid that counts is a raise: the leader stays unique.                  *)
LEMMA BidLeads ==
    ASSUME callScore \in [Seat -> 0 .. 3], curCallScore \in 0 .. 3,
           Leads(callScore, curCallScore),
           NEW c \in Seat, callScore[c] = 0, NEW s \in Nat
    PROVE  LET calls == [callScore EXCEPT ![c] = Bid(s)] IN
           /\ Bid(s) \in 0 .. 3
           /\ calls \in [Seat -> 0 .. 3]
           /\ Max(curCallScore, Bid(s)) \in 0 .. 3
           /\ Leads(calls, Max(curCallScore, Bid(s)))
           /\ Bid(s) = 3 /\ curCallScore < 3 =>
                \A d \in Seat \ {c} : calls[d] < calls[c]
<1> DEFINE bid == Bid(s)
           calls == [callScore EXCEPT ![c] = bid]
<1>1. bid \in 0 .. 3 /\ (bid = 0 \/ bid > curCallScore)
  BY DEF Bid
<1> HIDE DEF bid
<1>2. calls \in [Seat -> 0 .. 3]
  BY <1>1
<1>3. calls[c] = bid /\ \A d \in Seat \ {c} : calls[d] = callScore[d]
  OBVIOUS
<1> HIDE DEF calls
<1>4. \A d \in Seat : callScore[d] <= curCallScore
  BY DEF Leads
<1>5. Max(curCallScore, bid) \in 0 .. 3
  BY <1>1 DEF Max
<1>6. CASE bid = 0
  <2>1. \A d \in Seat : calls[d] = callScore[d]
    BY <1>3, <1>6
  <2>2. Max(curCallScore, bid) = curCallScore
    BY <1>6 DEF Max
  <2>3. Leads(calls, curCallScore)
    BY <2>1 DEF Leads
  <2> QED BY <1>1, <1>2, <1>5, <1>6, <2>2, <2>3 DEF calls, bid
<1>7. CASE bid > curCallScore
  <2>1. Max(curCallScore, bid) = bid
    BY <1>1, <1>7 DEF Max
  <2>2. \A d \in Seat \ {c} : calls[d] < bid
    <3>1. \A d \in Seat \ {c} : calls[d] = callScore[d] /\ callScore[d] \in 0 .. 3
      BY <1>3
    <3> QED BY <3>1, <1>1, <1>4, <1>7
  <2>3. \A d \in Seat : calls[d] <= bid
    BY <2>2, <1>1, <1>2, <1>3
  <2>4. Leads(calls, bid)
    BY <2>2, <2>3, <1>3 DEF Leads
  <2> QED BY <1>1, <1>2, <1>3, <1>5, <2>1, <2>2, <2>4 DEF calls, bid
<1> QED BY <1>1, <1>6, <1>7

(* Turns to bid come one after the other.                                  *)
LEMMA NextTurn ==
    ASSUME firstUser \in Seat, NEW c \in Seat, firstUser # After(c),
           NEW d \in Seat
    PROVE  /\ After(c) \in Seat
           /\ Turn(d) >= Turn(After(c)) => d # c /\ Turn(d) >= Turn(c)
BY DEF Turn, After, Seat

LEMMA AfterSeat ==
    ASSUME NEW c \in Seat
    PROVE  After(c) \in Seat /\ After(c) # c
BY DEF After, Seat

-----------------------------------------------------------------------------
(* Every step keeps the invariant.                                         *)

LEMMA InitInv == Init => IInv
<1> SUFFICES ASSUME Init PROVE IInv
  OBVIOUS
<1>1. score \in [Seat -> Nat] /\ callScore \in [Seat -> 0 .. 3]
  BY DEF Init, Zero
<1>2. hand \in [Seat -> SUBSET Card] /\ outCount \in [Seat -> Nat]
  BY DEF Init, Zero, NoCards
<1>3. TypeOK
  <2>1. blank \in BOOLEAN
    BY DEF Init
  <2>2. /\ state \in {"free", "call", "play"} /\ inTable = {} /\ ready = {}
        /\ income \in Nat /\ curCallScore \in 0 .. 3 /\ bombTimes \in Nat \ {0}
        /\ turnCard = {} /\ bankerCard = {} /\ outCards = {}
    BY DEF Init
  <2>3. {firstUser, curUser, bankerUser, turnWiner} \subseteq Seat \cup {INVALID}
    BY DEF Init
  <2> QED BY <1>1, <1>2, <2>1, <2>2, <2>3 DEF TypeOK
<1>4. EntriesApart /\ PlayedIsOut /\ TurnRight /\ LandlordBidMost /\ BidsRight
  BY DEF Init, EntriesApart, PlayedIsOut, TurnRight, LandlordBidMost, BidsRight
<1> QED BY <1>3, <1>4 DEF IInv

(* What is not about seats and balances is untouched.                      *)
LEMMA GameUntouched ==
    ASSUME IInv, TypeOK',
           UNCHANGED <<state, curUser, bids, cards, deck, blank>>,
           state # "free" => inTable' = inTable
    PROVE  IInv'
<1>1. EntriesApart'
  BY DEF IInv, EntriesApart, Apart, cards, deck
<1>2. TurnRight'
  BY DEF IInv, TurnRight, cards, deck, bids
<1>3. LandlordBidMost'
  BY DEF IInv, LandlordBidMost, bids
<1>4. BidsRight'
  <2>1. UNCHANGED <<state, firstUser, curUser, callScore, curCallScore,
                    bankerUser, turnCard, hand>>
    BY DEF deck, bids, cards
  <2>2. \A c : Turn(c)' = Turn(c)
    BY <2>1 DEF Turn
  <2>3. Leads(callScore, curCallScore)' <=> Leads(callScore, curCallScore)
    BY <2>1 DEF Leads
  <2>4. Turn(curUser)' = Turn(curUser)
    BY <2>1 DEF Turn
  <2>5. BidsRight
    BY DEF IInv
  <2> QED BY <2>1, <2>2, <2>3, <2>4, <2>5 DEF BidsRight
<1>5. PlayedIsOut'
  BY DEF IInv, PlayedIsOut, cards
<1> QED BY <1>1, <1>2, <1>3, <1>4, <1>5 DEF IInv

LEMMA EnterTableInv ==
    ASSUME IInv, NEW c \in Seat, NEW b \in Balances, EnterTable(c, b)
    PROVE  IInv'
<1>1. b \in Nat
  BY MoneyAssumption
<1>2. TypeOK'
  BY <1>1 DEF IInv, TypeOK, EnterTable, bids, cards, deck
<1> QED BY <1>2, GameUntouched DEF EnterTable

LEMMA PlayerReadyInv ==
    ASSUME IInv, NEW c \in Seat, PlayerReady(c)
    PROVE  IInv'
<1>1. TypeOK'
  BY DEF IInv, TypeOK, PlayerReady, LeaveTable, bids, cards, deck
<1> QED BY <1>1, GameUntouched DEF PlayerReady

LEMMA LeaveInv ==
    ASSUME IInv, NEW c \in Seat, Leave(c)
    PROVE  IInv'
<1>1. TypeOK'
  BY DEF IInv, TypeOK, Leave, LeaveTable, bids, cards, deck
<1> QED BY <1>1, GameUntouched DEF Leave

LEMMA FlushInv ==
    ASSUME IInv, NEW c \in Seat, NEW d \in Debits, FlushChangeAccData(c, d)
    PROVE  IInv'
<1>1. -d \in Int /\ score[c] \in Nat
  BY MoneyAssumption DEF IInv, TypeOK
<1>2. Changed(score[c], -d) \in Nat
  BY <1>1, ChangedType
<1>3. score' \in [Seat -> Nat]
  BY <1>2 DEF FlushChangeAccData, IInv, TypeOK
<1>4. TypeOK'
  BY <1>3 DEF IInv, TypeOK, FlushChangeAccData, seats, bids, cards, deck
<1> QED BY <1>4, GameUntouched DEF FlushChangeAccData, seats

(* A fresh deal: the bids are open, the cards are dealt.                   *)
LEMMA DealInv ==
    ASSUME IInv, NEW d \in Deals, NEW first \in Seat, DealCards(d, first),
           inTable = Seat, inTable' = inTable, ready' \subseteq inTable,
           score' = score,
           bankerUser' = INVALID, callScore' = Zero, curCallScore' = 0,
           outCount' \in [Seat -> Nat], bombTimes' \in Nat \ {0}
    PROVE  IInv'
<1>1. /\ d \in [Card -> Seat \cup {Back}] /\ Back \notin Seat
      /\ \A c \in Seat : \E k \in Card : d[k] = c
  BY DealAssumption
<1>2. \A c \in Seat : hand'[c] = {k \in Card : d[k] = c}
  BY DEF DealCards
<1>3. TypeOK'
  BY DEF DealCards, IInv, TypeOK, Zero, INVALID, Seat
<1>4. EntriesApart'
  <2>1. Apart(hand', bankerCard')
    <3>1. bankerCard' = {k \in Card : d[k] = Back}
      BY DEF DealCards
    <3>2. \A c \in Seat : hand'[c] \cap bankerCard' = {}
      BY <1>1, <1>2, <3>1
    <3>3. \A c, e \in Seat : c # e => hand'[c] \cap hand'[e] = {}
      BY <1>2
    <3>4. (UNION {hand'[c] : c \in Seat}) \cup bankerCard' = Card
      <4>1. \A k \in Card : d[k] = Back \/ d[k] \in Seat
        BY <1>1
      <4>2. \A k \in Card : k \in bankerCard' \/ \E c \in Seat : k \in hand'[c]
        BY <4>1, <1>2, <3>1
      <4>3. bankerCard' \subseteq Card /\ \A c \in Seat : hand'[c] \subseteq Card
        BY <1>2, <3>1
      <4> DEFINE U == UNION {hand'[c] : c \in Seat}
      <4>4. \A k : k \in U <=> \E c \in Seat : k \in hand'[c]
        OBVIOUS
      <4> HIDE DEF U
      <4>5. U \cup bankerCard' = Card
        BY <4>2, <4>3, <4>4
      <4> QED BY <4>5 DEF U
    <3> QED BY <3>2, <3>3, <3>4 DEF Apart
  <2>2. state' = "call" /\ outCards' = {}
    BY DEF DealCards
  <2> QED BY <2>1, <2>2 DEF EntriesApart, Apart
<1>5. TurnRight'
  BY DEF DealCards, TurnRight
<1>6. LandlordBidMost'
  BY DEF DealCards, LandlordBidMost
<1>7. BidsRight'
  <2>1. state' = "call" /\ firstUser' \in Seat /\ turnCard' = {}
    BY DEF DealCards
  <2>2. Leads(callScore', curCallScore')
    BY DEF Leads, Zero
  <2>3. \A c \in Seat : callScore'[c] = 0 /\ hand'[c] # {}
    BY <1>1, <1>2 DEF Zero
  <2> QED BY <2>1, <2>2, <2>3 DEF BidsRight, Leads
<1>8. PlayedIsOut'
  BY DEF DealCards, PlayedIsOut
<1> QED BY <1>3, <1>4, <1>5, <1>6, <1>7, <1>8 DEF IInv

LEMMA OnGameStartInv ==
    ASSUME IInv, OnGameStart
    PROVE  IInv'
<1>1. PICK d \in Deals, first \in Seat : DealCards(d, first)
  BY DEF OnGameStart
<1>2. /\ inTable = Seat /\ inTable' = inTable /\ ready' \subseteq inTable
      /\ score' = score
      /\ bankerUser' = INVALID /\ callScore' = Zero /\ curCallScore' = 0
      /\ outCount' \in [Seat -> Nat] /\ bombTimes' \in Nat \ {0}
  BY DEF OnGameStart, IInv, BidsRight, TypeOK, bids, seats
<1> QED BY <1>1, <1>2, DealInv

LEMMA ReGameStartInv ==
    ASSUME IInv, state = "call", ReGameStart
    PROVE  IInv'
<1>1. PICK d \in Deals, first \in Seat : DealCards(d, first)
  BY DEF ReGameStart
<1>2. /\ inTable = Seat /\ inTable' = inTable /\ ready' \subseteq inTable
      /\ score' = score
      /\ bankerUser' = INVALID /\ callScore' = Zero /\ curCallScore' = 0
      /\ outCount' \in [Seat -> Nat] /\ bombTimes' \in Nat \ {0}
  BY DEF ReGameStart, ClearBids, IInv, TurnRight, Zero
<1> QED BY <1>1, <1>2, DealInv

(* The landlord is found: it leads, with more bid than the others.         *)
LEMMA SetBankerInv ==
    ASSUME IInv, state = "call", NEW b \in Seat, SetBanker(b),
           callScore' \in [Seat -> 0 .. 3], curCallScore' \in 0 .. 3,
           callScore'[b] = curCallScore', curCallScore' > 0,
           \A c \in Seat \ {b} : callScore'[c] < curCallScore'
    PROVE  IInv'
<1> DEFINE fee == IF FeeType = "allbase" THEN (BaseScore * FeeRate) \div 100 ELSE 0
<1>1. fee \in Nat
  <2>1. BaseScore * FeeRate \in Nat
    BY NatProduct, MoneyAssumption
  <2> DEFINE x == BaseScore * FeeRate
  <2> HIDE DEF x
  <2>2. x \div 100 \in Nat
    BY <2>1 DEF x
  <2> QED BY <2>2 DEF x
<1>2. /\ score' = [c \in Seat |-> Changed(score[c], -fee)]
      /\ income' = income + 3 * fee
  BY DEF SetBanker, DeductStartFee
<1> HIDE DEF fee
<1>3. score' \in [Seat -> Nat] /\ income' \in Nat
  <2>1. -fee \in Int
    BY <1>1
  <2>2. \A c \in Seat : score[c] \in Nat
    BY DEF IInv, TypeOK
  <2>3. \A c \in Seat : Changed(score[c], -fee) \in Nat
    BY <2>1, <2>2, ChangedType
  <2> QED BY <2>3, <1>1, <1>2 DEF IInv, TypeOK
<1>4. /\ state' = "play" /\ bankerUser' = b /\ turnWiner' = b /\ curUser' = b
      /\ hand' = [hand EXCEPT ![b] = @ \cup bankerCard]
      /\ inTable' = inTable /\ ready' = ready /\ turnCard' = turnCard
      /\ outCards' = outCards /\ outCount' = outCount /\ bombTimes' = bombTimes
      /\ firstUser' = firstUser /\ bankerCard' = bankerCard /\ blank' = blank
  BY DEF SetBanker, seats, deck
<1>5. hand \in [Seat -> SUBSET Card] /\ bankerCard \subseteq Card
  BY DEF IInv, TypeOK
<1>6. hand'[b] = hand[b] \cup bankerCard
      /\ \A c \in Seat \ {b} : hand'[c] = hand[c]
  BY <1>4, <1>5
<1>7. hand' \in [Seat -> SUBSET Card]
  BY <1>4, <1>5
<1>8. Apart(hand, bankerCard) /\ outCards = {} /\ turnCard = {}
  BY DEF IInv, EntriesApart, BidsRight
<1>9. TypeOK'
  BY <1>3, <1>4, <1>7 DEF IInv, TypeOK
<1>10. EntriesApart'
  <2>1. \A c, e \in Seat : c # e => hand'[c] \cap hand'[e] = {}
    BY <1>6, <1>8 DEF Apart
  <2>2. (UNION {hand'[c] : c \in Seat}) \cup outCards' = Card
    <3> DEFINE U == UNION {hand'[c] : c \in Seat}
               V == UNION {hand[c] : c \in Seat}
    <3>1. \A k : k \in U <=> \E c \in Seat : k \in hand'[c]
      OBVIOUS
    <3>2. \A k : k \in V <=> \E c \in Seat : k \in hand[c]
      OBVIOUS
    <3>3. V \cup bankerCard = Card
      BY <1>8 DEF Apart
    <3> HIDE DEF U, V
    <3>4. U \cup outCards' = Card
      BY <3>1, <3>2, <3>3, <1>4, <1>6, <1>8
    <3> QED BY <3>4 DEF U
  <2>3. Apart(hand', outCards')
    BY <2>1, <2>2, <1>4, <1>8 DEF Apart
  <2> QED BY <2>3, <1>4, <1>8 DEF EntriesApart, Apart
<1>11. TurnRight'
  <2>1. inTable = Seat /\ \A c \in Seat : hand[c] # {}
    BY DEF IInv, TurnRight, BidsRight
  <2>2. \A c \in Seat : hand'[c] # {}
    BY <2>1, <1>6
  <2> QED BY <2>1, <2>2, <1>4, <1>8 DEF TurnRight
<1>12. LandlordBidMost'
  BY <1>4 DEF LandlordBidMost
<1>13. BidsRight'
  BY <1>4 DEF BidsRight
<1>14. PlayedIsOut'
  BY <1>4, <1>8 DEF PlayedIsOut
<1> QED BY <1>9, <1>10, <1>11, <1>12, <1>13, <1>14 DEF IInv

LEMMA OnUserCallScoreInv ==
    ASSUME IInv, NEW c \in Seat, NEW s \in Bids, OnUserCallScore(c, s)
    PROVE  IInv'
<1> DEFINE bid == Bid(s)
           calls == [callScore EXCEPT ![c] = bid]
           last == firstUser = After(c)
           most == Max(curCallScore, bid)
<1>1. state = "call" /\ c = curUser
  BY DEF OnUserCallScore
<1>2. /\ firstUser \in Seat /\ curCallScore < 3
      /\ Leads(callScore, curCallScore)
      /\ \A d \in Seat : Turn(d) >= Turn(c) => callScore[d] = 0
      /\ turnCard = {} /\ \A d \in Seat : hand[d] # {}
  BY <1>1 DEF IInv, BidsRight
<1>3. callScore \in [Seat -> 0 .. 3] /\ curCallScore \in 0 .. 3
  BY DEF IInv, TypeOK
<1>4. callScore[c] = 0
  <2>1. Turn(c) >= Turn(c)
    BY <1>2 DEF Turn, Seat
  <2> QED BY <2>1, <1>2
<1>5. s \in Nat
  BY MoneyAssumption
<1>6. /\ bid \in 0 .. 3
      /\ calls \in [Seat -> 0 .. 3]
      /\ most \in 0 .. 3
      /\ Leads(calls, most)
      /\ bid = 3 => \A d \in Seat \ {c} : calls[d] < calls[c]
  BY <1>2, <1>3, <1>4, <1>5, BidLeads
<1>7. calls[c] = bid /\ \A d \in Seat \ {c} : calls[d] = callScore[d]
  BY <1>3
<1>8. calls \in [Seat -> Nat]
  BY <1>6
<1>9. OnUserCallScore(c, s) <=>
        /\ state = "call" /\ c = curUser
        /\ \/ /\ bid = 3 \/ (last /\ calls[MaxCaller(calls)] > 0)
              /\ callScore' = calls /\ curCallScore' = most
              /\ SetBanker(IF last THEN MaxCaller(calls) ELSE c)
           \/ /\ last /\ calls[MaxCaller(calls)] = 0
              /\ ReGameStart
           \/ /\ bid # 3 /\ ~last
              /\ callScore' = calls /\ curCallScore' = most
              /\ curUser' = After(c)
              /\ UNCHANGED <<state, seats, score, income, bankerUser,
                             cards, deck, blank>>
  BY DEF OnUserCallScore
<1>10. bid = 3 => most = 3
  BY <1>6, <1>3 DEF Max
<1> HIDE DEF bid, calls, last, most
<1>11. CASE /\ bid = 3 \/ (last /\ calls[MaxCaller(calls)] > 0)
            /\ callScore' = calls /\ curCallScore' = most
            /\ SetBanker(IF last THEN MaxCaller(calls) ELSE c)
  <2> DEFINE b == IF last THEN MaxCaller(calls) ELSE c
  <2>1. most > 0
    <3>1. CASE bid = 3
      BY <3>1, <1>10
    <3>2. CASE ~(bid = 3)
      <4>1. calls[MaxCaller(calls)] > 0
        BY <1>11, <3>2
      <4>2. CASE most = 0
        <5>1. \A d \in Seat : calls[d] = 0
          BY <4>2, <1>6 DEF Leads
        <5>2. calls[MaxCaller(calls)] = 0
          BY <5>1, <1>2, <1>8, MaxCallerNone
        <5> QED BY <5>2, <4>1
      <4> QED BY <4>2, <1>6
    <3> QED BY <3>1, <3>2
  <2>2. PICK l \in Seat : /\ calls[l] = most
                          /\ \A d \in Seat \ {l} : calls[d] < most
    BY <2>1, <1>6 DEF Leads
  <2>3. MaxCaller(calls) = l
    BY <2>2, <1>2, <1>8, MaxCallerLeads
  <2>4. b = l
    <3>1. CASE last
      BY <3>1, <2>3
    <3>2. CASE ~last
      <4>1. bid = 3
        BY <3>2, <1>11
      <4>2. calls[c] = most
        BY <4>1, <1>7, <1>10
      <4>3. c = l
        BY <4>2, <2>2, <1>6
      <4> QED BY <4>3, <3>2
    <3> QED BY <3>1, <3>2
  <2>5. SetBanker(l)
    BY <2>4, <1>11
  <2>6. /\ callScore' \in [Seat -> 0 .. 3] /\ curCallScore' \in 0 .. 3
        /\ callScore'[l] = curCallScore' /\ curCallScore' > 0
        /\ \A d \in Seat \ {l} : callScore'[d] < curCallScore'
    BY <1>6, <1>11, <2>1, <2>2
  <2> QED BY <2>5, <2>6, <1>1, SetBankerInv
<1>12. CASE last /\ calls[MaxCaller(calls)] = 0 /\ ReGameStart
  BY <1>12, <1>1, ReGameStartInv
<1>13. CASE /\ bid # 3 /\ ~last
            /\ callScore' = calls /\ curCallScore' = most
            /\ curUser' = After(c)
            /\ UNCHANGED <<state, seats, score, income, bankerUser, cards, deck, blank>>
  <2>1. /\ state' = "call" /\ inTable' = inTable /\ ready' = ready
        /\ score' = score /\ income' = income /\ bankerUser' = bankerUser
        /\ turnWiner' = turnWiner /\ turnCard' = turnCard /\ hand' = hand
        /\ outCards' = outCards /\ outCount' = outCount
        /\ bombTimes' = bombTimes /\ firstUser' = firstUser
        /\ bankerCard' = bankerCard /\ blank' = blank
    BY <1>13, <1>1 DEF seats, cards, deck
  <2>2. After(c) \in Seat
    BY AfterSeat
  <2>3. TypeOK'
    BY <2>1, <2>2, <1>6, <1>13 DEF IInv, TypeOK
  <2>4. EntriesApart'
    BY <2>1, <1>1 DEF IInv, EntriesApart, Apart
  <2>5. TurnRight'
    BY <2>1, <2>2, <1>1, <1>13 DEF IInv, TurnRight
  <2>6. LandlordBidMost'
    BY <2>1 DEF LandlordBidMost
  <2>7. most < 3
    BY <1>2, <1>3, <1>6, <1>13 DEF most, Max
  <2>8. \A d \in Seat : Turn(d) >= Turn(After(c)) => calls[d] = 0
    <3> SUFFICES ASSUME NEW d \in Seat, Turn(d) >= Turn(After(c))
                 PROVE  calls[d] = 0
      OBVIOUS
    <3>1. d # c /\ Turn(d) >= Turn(c)
      BY <1>2, <1>13, NextTurn DEF last
    <3> QED BY <3>1, <1>2, <1>7
  <2>9. \A d \in Seat : Turn(d)' >= Turn(curUser)' => callScore'[d] = 0
    BY <2>8, <2>1, <1>13 DEF Turn
  <2>10. Leads(callScore', curCallScore')
    BY <1>6, <1>13
  <2>11. BidsRight'
    BY <2>1, <2>7, <2>9, <2>10, <1>2, <1>13 DEF BidsRight, Leads
  <2>12. PlayedIsOut'
    BY <2>1 DEF PlayedIsOut
  <2> QED BY <2>3, <2>4, <2>5, <2>6, <2>11, <2>12 DEF IInv
<1> QED BY <1>9, <1>11, <1>12, <1>13

-----------------------------------------------------------------------------
(* The play.                                                               *)

(* The settlement takes from no one what it does not hold, and what one    *)
(* side loses the other side and the host get.                             *)
LEMMA GameEndSettles ==
    ASSUME TypeOK, TurnRight, state = "play", NEW w \in Seat, w = curUser,
           NEW p, NEW outs, NEW bombs \in Nat, OnGameEnd(w, p, outs, bombs)
    PROVE  /\ score' \in [Seat -> Nat]
           /\ income' \in Nat
           /\ Settled
<1> DEFINE spring == IF Spring(w, outs) THEN 2 ELSE 1
           times == bombs * spring * callScore[bankerUser]
           won == CalcScore(w, times)
           fee == [c \in Seat |-> EndFee(won[c])]
<1>1. bankerUser \in Seat /\ score \in [Seat -> Nat] /\ income \in Nat
      /\ callScore \in [Seat -> 0 .. 3]
  BY DEF TypeOK, TurnRight
<1>2. times \in Nat
  <2>1. spring \in Nat
    OBVIOUS
  <2> HIDE DEF spring
  <2>2. bombs * spring \in Nat
    BY <2>1, NatProduct
  <2>3. callScore[bankerUser] \in Nat
    BY <1>1
  <2> DEFINE x == bombs * spring
  <2> HIDE DEF x
  <2>4. x * callScore[bankerUser] \in Nat
    BY <2>2, <2>3, NatProduct DEF x
  <2> QED BY <2>4 DEF x
<1>3. /\ score' = [c \in Seat |-> Changed(score[c], won[c] - fee[c])]
      /\ income' = income + fee[0] + fee[1] + fee[2]
  BY DEF OnGameEnd
<1> HIDE DEF times
<1>4. /\ won \in [Seat -> Int]
      /\ \A c \in Seat : score[c] + won[c] >= 0
      /\ won[0] + won[1] + won[2] = 0
      /\ \A c \in Seat : IF c # bankerUser <=> w # bankerUser
                         THEN won[c] >= 0 ELSE won[c] <= 0
  BY <1>1, <1>2, CalcScoreRight
<1> HIDE DEF won
<1>5. \A c \in Seat : /\ fee[c] \in Nat
                      /\ won[c] > 0 => fee[c] <= won[c]
                      /\ won[c] <= 0 => fee[c] = 0
  <2>1. \A c \in Seat : won[c] \in Int
    BY <1>4
  <2>2. \A c \in Seat : fee[c] = EndFee(won[c])
    OBVIOUS
  <2> HIDE DEF fee
  <2> QED BY <2>1, <2>2, EndFeeType
<1> HIDE DEF fee
<1>6. \A c \in Seat : score'[c] = score[c] + won[c] - fee[c]
  <2> SUFFICES ASSUME NEW c \in Seat
               PROVE  score'[c] = score[c] + won[c] - fee[c]
    OBVIOUS
  <2>1. won[c] \in Int /\ score[c] \in Nat /\ fee[c] \in Nat
    BY <1>1, <1>4, <1>5
  <2>2. score[c] + (won[c] - fee[c]) >= 0
    BY <2>1, <1>4, <1>5
  <2>3. Changed(score[c], won[c] - fee[c]) = score[c] + won[c] - fee[c]
    BY <2>1, <2>2 DEF Changed, Max
  <2>4. score'[c] = Changed(score[c], won[c] - fee[c])
    BY <1>3
  <2> QED BY <2>3, <2>4
<1>7. \A c \in Seat : score'[c] \in Nat
  <2> SUFFICES ASSUME NEW c \in Seat PROVE score'[c] \in Nat
    OBVIOUS
  <2>1. won[c] \in Int /\ score[c] \in Nat /\ fee[c] \in Nat
    BY <1>1, <1>4, <1>5
  <2> QED BY <2>1, <1>4, <1>5, <1>6
<1>8. score' \in [Seat -> Nat]
  BY <1>3, <1>7
<1>9. income' \in Nat
  BY <1>1, <1>3, <1>5 DEF Seat
<1>10. Total(score') + income' = Total(score) + income
  <2>1. /\ score'[0] = score[0] + won[0] - fee[0]
        /\ score'[1] = score[1] + won[1] - fee[1]
        /\ score'[2] = score[2] + won[2] - fee[2]
    BY <1>6 DEF Seat
  <2>2. /\ score[0] \in Nat /\ score[1] \in Nat /\ score[2] \in Nat
        /\ won[0] \in Int /\ won[1] \in Int /\ won[2] \in Int
        /\ fee[0] \in Nat /\ fee[1] \in Nat /\ fee[2] \in Nat
    BY <1>1, <1>4, <1>5 DEF Seat
  <2>3. /\ Total(score') = score'[0] + score'[1] + score'[2]
        /\ Total(score) = score[0] + score[1] + score[2]
    BY DEF Total
  <2>4. /\ income' = income + fee[0] + fee[1] + fee[2]
        /\ won[0] + won[1] + won[2] = 0
        /\ income \in Nat
    BY <1>1, <1>3, <1>4
  <2> QED BY <2>1, <2>2, <2>3, <2>4
<1>11. \A c \in Seat :
         IF c # bankerUser <=> curUser # bankerUser
         THEN score'[c] >= score[c] ELSE score'[c] <= score[c]
  <2> SUFFICES ASSUME NEW c \in Seat
               PROVE  IF c # bankerUser <=> curUser # bankerUser
                      THEN score'[c] >= score[c] ELSE score'[c] <= score[c]
    OBVIOUS
  <2>1. won[c] \in Int /\ score[c] \in Nat /\ fee[c] \in Nat
    BY <1>1, <1>4, <1>5
  <2> QED BY <2>1, <1>4, <1>5, <1>6
<1> QED BY <1>8, <1>9, <1>10, <1>11 DEF Settled

(* The cards held, split in those of seat c and those of the others.       *)
LEMMA HandsSplit ==
    ASSUME NEW h \in [Seat -> SUBSET Card], NEW c \in Seat
    PROVE  (UNION {h[d] : d \in Seat})
             = h[c] \cup UNION {h[d] : d \in Seat \ {c}}
<1> DEFINE U == UNION {h[d] : d \in Seat}
           V == UNION {h[d] : d \in Seat \ {c}}
<1>1. \A k : k \in U <=> \E d \in Seat : k \in h[d]
  OBVIOUS
<1>2. \A k : k \in V <=> \E d \in Seat \ {c} : k \in h[d]
  OBVIOUS
<1> HIDE DEF U, V
<1>3. U = h[c] \cup V
  BY <1>1, <1>2
<1> QED BY <1>3 DEF U, V

LEMMA OnGameEndInv ==
    ASSUME IInv, state = "play", NEW w \in Seat, w = curUser,
           NEW outs, NEW bombs \in Nat,
           OnGameEnd(w, hand[w], outs, bombs), blank' \in BOOLEAN
    PROVE  IInv'
<1>1. score' \in [Seat -> Nat] /\ income' \in Nat
  BY GameEndSettles DEF IInv
<1>2. /\ state' = "free" /\ firstUser' = w /\ curUser' = INVALID
      /\ bankerUser' = INVALID /\ callScore' = Zero /\ curCallScore' = 0
      /\ outCount' = Zero /\ bombTimes' = 1
      /\ turnWiner' = INVALID /\ turnCard' = {} /\ bankerCard' = {}
      /\ hand' = NoCards /\ ready' = {}
      /\ outCards' = outCards \cup hand[w] \cup UNION {hand[c] : c \in Seat \ {w}}
  BY DEF OnGameEnd, ClearBids
<1>3. inTable' \subseteq Seat
  <2>1. \E rich \in SUBSET {c \in inTable : score'[c] >= EnterMax} :
          inTable' = inTable \ rich
    BY DEF OnGameEnd
  <2> QED BY <2>1 DEF IInv, TypeOK
<1>4. outCards' = Card
  <2>1. hand \in [Seat -> SUBSET Card]
    BY DEF IInv, TypeOK
  <2> DEFINE U == UNION {hand[d] : d \in Seat}
             V == UNION {hand[d] : d \in Seat \ {w}}
  <2>2. U \cup outCards = Card
    BY DEF IInv, EntriesApart, Apart
  <2>3. U = hand[w] \cup V
    BY <2>1, HandsSplit
  <2>4. outCards' = outCards \cup hand[w] \cup V
    BY <1>2
  <2> HIDE DEF U, V
  <2> QED BY <2>2, <2>3, <2>4
<1>5. TypeOK'
  BY <1>1, <1>2, <1>3, <1>4 DEF TypeOK, Zero, NoCards, INVALID
<1>6. EntriesApart'
  BY <1>2, <1>4 DEF EntriesApart, NoCards
<1>7. TurnRight'
  BY <1>2 DEF TurnRight
<1>8. LandlordBidMost'
  BY <1>2 DEF LandlordBidMost
<1>9. BidsRight'
  BY <1>2 DEF BidsRight, Zero
<1>10. PlayedIsOut'
  BY <1>2 DEF PlayedIsOut
<1> QED BY <1>5, <1>6, <1>7, <1>8, <1>9, <1>10 DEF IInv

LEMMA OnUserOutCardInv ==
    ASSUME IInv, NEW c \in Seat, NEW p, OnUserOutCard(c, p)
    PROVE  IInv'
<1> DEFINE outs == [outCount EXCEPT ![c] = @ + 1]
           bombs == IF p \in Bomb THEN 2 * bombTimes ELSE bombTimes
<1>1. state = "play" /\ c = curUser /\ CanOut(c, p)
  BY DEF OnUserOutCard
<1>2. /\ hand \in [Seat -> SUBSET Card] /\ outCount \in [Seat -> Nat]
      /\ bombTimes \in Nat \ {0}
  BY DEF IInv, TypeOK
<1>3. outs \in [Seat -> Nat] /\ bombs \in Nat \ {0}
  BY <1>2
<1>4. PICK q \in Gone(c, p) :
        IF q = hand[c]
        THEN OnGameEnd(c, q, outs, bombs)
        ELSE /\ hand' = [hand EXCEPT ![c] = @ \ q]
             /\ outCount' = outs /\ bombTimes' = bombs
             /\ turnWiner' = c /\ turnCard' = p /\ curUser' = After(c)
             /\ outCards' = outCards \cup q
             /\ UNCHANGED <<state, seats, score, income, bids, deck>>
  BY DEF OnUserOutCard
<1> HIDE DEF outs, bombs
<1>5. /\ q \subseteq hand[c] /\ q \subseteq Card
      /\ p \subseteq Card \cup Blank /\ p # {}
      /\ blank \/ p \cap Card \subseteq q
  <2>1. q \subseteq hand[c] /\ (blank \/ p \cap Card \subseteq q)
    BY DEF Gone
  <2> QED BY <2>1, <1>1, <1>2, PlayAssumption DEF CanOut
<1>8. blank' = (blank \/ ~(p \subseteq Card))
  BY DEF OnUserOutCard
<1>6. CASE q = hand[c]
  <2>1. OnGameEnd(c, hand[c], outs, bombs)
    BY <1>4, <1>6
  <2> QED BY <2>1, <1>1, <1>3, <1>8, OnGameEndInv
<1>7. CASE q # hand[c]
  <2>1. /\ hand' = [hand EXCEPT ![c] = @ \ q]
        /\ outCount' = outs /\ bombTimes' = bombs
        /\ turnWiner' = c /\ turnCard' = p /\ curUser' = After(c)
        /\ outCards' = outCards \cup q
        /\ state' = "play" /\ inTable' = inTable /\ ready' = ready
        /\ score' = score /\ income' = income /\ bankerUser' = bankerUser
        /\ callScore' = callScore /\ curCallScore' = curCallScore
        /\ firstUser' = firstUser /\ bankerCard' = bankerCard
    BY <1>1, <1>4, <1>7 DEF seats, bids, deck
  <2>2. After(c) \in Seat /\ After(c) # c
    BY AfterSeat
  <2>3. hand'[c] = hand[c] \ q /\ \A d \in Seat \ {c} : hand'[d] = hand[d]
    BY <2>1, <1>2
  <2>4. hand' \in [Seat -> SUBSET Card]
    BY <2>1, <1>2
  <2>5. TypeOK'
    BY <2>1, <2>2, <2>4, <1>3, <1>5, <1>8 DEF IInv, TypeOK
  <2>6. Apart(hand, outCards)
    BY <1>1 DEF IInv, EntriesApart
  <2>7. Apart(hand', outCards')
    <3>1. \A d \in Seat : hand'[d] \cap outCards' = {}
      <4>1. hand'[c] \cap outCards' = {}
        BY <2>1, <2>3, <2>6 DEF Apart
      <4>2. \A d \in Seat \ {c} : hand'[d] \cap outCards' = {}
        BY <2>1, <2>3, <2>6, <1>5 DEF Apart
      <4> QED BY <4>1, <4>2
    <3>2. \A d, e \in Seat : d # e => hand'[d] \cap hand'[e] = {}
      BY <2>3, <2>6 DEF Apart
    <3>3. (UNION {hand'[d] : d \in Seat}) \cup outCards' = Card
      <4> DEFINE U == UNION {hand'[d] : d \in Seat}
                 V == UNION {hand[d] : d \in Seat}
      <4>1. \A k : k \in U <=> \E d \in Seat : k \in hand'[d]
        OBVIOUS
      <4>2. \A k : k \in V <=> \E d \in Seat : k \in hand[d]
        OBVIOUS
      <4>3. V \cup outCards = Card
        BY <2>6 DEF Apart
      <4> HIDE DEF U, V
      <4>4. \A k : k \in U \cup outCards' <=> k \in V \cup outCards
        BY <4>1, <4>2, <2>1, <2>3, <1>5
      <4>5. U \cup outCards' = Card
        BY <4>3, <4>4
      <4> QED BY <4>5 DEF U
    <3> QED BY <3>1, <3>2, <3>3 DEF Apart
  <2>8. EntriesApart'
    BY <2>1, <2>7 DEF EntriesApart, Apart
  <2>9. TurnRight'
    <3>1. inTable = Seat /\ bankerUser \in Seat /\ \A d \in Seat : hand[d] # {}
      BY <1>1 DEF IInv, TurnRight
    <3>2. \A d \in Seat : hand'[d] # {}
      BY <3>1, <2>3, <1>5, <1>7
    <3> QED BY <3>1, <3>2, <2>1, <2>2, <1>5 DEF TurnRight
  <2>10. LandlordBidMost'
    BY <2>1, <1>1 DEF IInv, LandlordBidMost
  <2>11. BidsRight'
    BY <2>1 DEF BidsRight
  <2>12. PlayedIsOut'
    <3> SUFFICES ASSUME ~blank'
                 PROVE  turnCard' \subseteq outCards'
      BY DEF PlayedIsOut
    <3>1. p \subseteq q
      BY <1>5, <1>8
    <3> QED BY <3>1, <2>1
  <2> QED BY <2>5, <2>8, <2>9, <2>10, <2>11, <2>12 DEF IInv
<1> QED BY <1>6, <1>7

LEMMA OnUserPassCardInv ==
    ASSUME IInv, NEW c \in Seat, OnUserPassCard(c)
    PROVE  IInv'
<1>1. /\ state = "play" /\ c = curUser /\ turnCard # {}
      /\ curUser' = After(c)
      /\ turnCard' = IF After(c) = turnWiner THEN {} ELSE turnCard
      /\ state' = state /\ inTable' = inTable /\ ready' = ready
      /\ score' = score /\ income' = income /\ bankerUser' = bankerUser
      /\ callScore' = callScore /\ curCallScore' = curCallScore
      /\ turnWiner' = turnWiner /\ hand' = hand /\ outCards' = outCards
      /\ outCount' = outCount /\ bombTimes' = bombTimes
      /\ firstUser' = firstUser /\ bankerCard' = bankerCard /\ blank' = blank
  BY DEF OnUserPassCard, seats, bids, deck
<1>2. After(c) \in Seat
  BY AfterSeat
<1>3. TypeOK'
  BY <1>1, <1>2 DEF IInv, TypeOK
<1>4. EntriesApart'
  BY <1>1 DEF IInv, EntriesApart, Apart
<1>5. TurnRight'
  BY <1>1, <1>2 DEF IInv, TurnRight
<1>6. LandlordBidMost'
  BY <1>1 DEF IInv, LandlordBidMost
<1>7. BidsRight'
  BY <1>1 DEF BidsRight
<1>8. PlayedIsOut'
  BY <1>1 DEF IInv, PlayedIsOut
<1> QED BY <1>3, <1>4, <1>5, <1>6, <1>7, <1>8 DEF IInv

(* What the AI plays is an ordinary play or pass of whose turn it is.      *)
LEMMA AutoCardInv ==
    ASSUME IInv, NEW p, OnUserAutoCard(p)
    PROVE  IInv'
<1>1. /\ state = "play"
      /\ \/ OnUserOutCard(curUser, p)
         \/ OnUserPassCard(curUser)
         \/ \E k : OnUserOutCard(curUser, {k})
  BY DEF OnUserAutoCard
<1>2. curUser \in Seat
  BY <1>1 DEF IInv, TurnRight
<1>3. CASE OnUserOutCard(curUser, p)
  BY <1>2, <1>3, OnUserOutCardInv
<1>4. CASE OnUserPassCard(curUser)
  BY <1>2, <1>4, OnUserPassCardInv
<1>5. CASE \E k : OnUserOutCard(curUser, {k})
  BY <1>2, <1>5, OnUserOutCardInv
<1> QED BY <1>1, <1>3, <1>4, <1>5

LEMMA StutterInv ==
    ASSUME IInv, UNCHANGED vars
    PROVE  IInv'
<1>1. TypeOK'
  BY DEF IInv, TypeOK, vars, seats, bids, cards, deck
<1> QED BY <1>1, GameUntouched DEF vars, seats

LEMMA NextInv ==
    ASSUME IInv, [Next]_vars
    PROVE  IInv'
<1>1. CASE \E c \in Seat, b \in Balances : EnterTable(c, b)
  BY <1>1, EnterTableInv
<1>2. CASE \E c \in Seat : PlayerReady(c)
  BY <1>2, PlayerReadyInv
<1>3. CASE \E c \in Seat : Leave(c)
  BY <1>3, LeaveInv
<1>4. CASE \E c \in Seat, d \in Debits : FlushChangeAccData(c, d)
  BY <1>4, FlushInv
<1>5. CASE OnGameStart
  BY <1>5, OnGameStartInv
<1>6. CASE \E c \in Seat, s \in Bids : OnUserCallScore(c, s)
  BY <1>6, OnUserCallScoreInv
<1>7. CASE \E c \in Seat, p \in Play : OnUserOutCard(c, p)
  BY <1>7, OnUserOutCardInv
<1>8. CASE \E c \in Seat : OnUserPassCard(c)
  BY <1>8, OnUserPassCardInv
<1>9. CASE AutoCard
  BY <1>9, AutoCardInv DEF AutoCard
<1>10. CASE UNCHANGED vars
  BY <1>10, StutterInv
<1> QED
  BY <1>1, <1>2, <1>3, <1>4, <1>5, <1>6, <1>7, <1>8, <1>9, <1>10 DEF Next

THEOREM InvariantHolds == Spec => []IInv
<1>1. Init => IInv
  BY InitInv
<1>2. IInv /\ [Next]_vars => IInv'
  BY NextInv
<1> QED BY <1>1, <1>2, PTL DEF Spec

-----------------------------------------------------------------------------
(* The results.                                                            *)

(* Every variable keeps its type; above all no balance goes below 0.       *)
THEOREM GameTypeCorrect == Spec => []TypeOK
<1>1. IInv => TypeOK
  BY DEF IInv
<1> QED BY <1>1, InvariantHolds, PTL

(* For every deck and every deal no card is lost or held twice, and the    *)
(* cards a hand leaves behind are a whole deck for the next deal; this     *)
(* while nobody has played an entry that is no card since the last new     *)
(* deck.                                                                   *)
THEOREM NoCardIsLost == Spec => []CardsConserved
<1>1. IInv => CardsConserved
  BY DEF IInv, CardsConserved, PlayedIsOut
<1> QED BY <1>1, InvariantHolds, PTL

(* Whoever is asked to play can: three players sit, all hold cards, and    *)
(* only who was not beaten leads.                                          *)
THEOREM TheTurnIsRight == Spec => []TurnRight
<1>1. IInv => TurnRight
  BY DEF IInv
<1> QED BY <1>1, InvariantHolds, PTL

(* The landlord is the one who has bid most.                               *)
THEOREM TheLandlordBidMost == Spec => []LandlordBidMost
<1>1. IInv => LandlordBidMost
  BY DEF IInv
<1> QED BY <1>1, InvariantHolds, PTL

(* A step that ends a hand is the play of somebody's last cards.           *)
LEMMA EndSettles ==
    ASSUME IInv, NEW c \in Seat, NEW p, OnUserOutCard(c, p), state' = "free"
    PROVE  Settled
<1> DEFINE outs == [outCount EXCEPT ![c] = @ + 1]
           bombs == IF p \in Bomb THEN 2 * bombTimes ELSE bombTimes
<1>1. state = "play" /\ c = curUser
  BY DEF OnUserOutCard
<1>2. bombs \in Nat
  BY DEF IInv, TypeOK
<1>3. PICK q : OnGameEnd(c, q, outs, bombs)
  BY <1>1 DEF OnUserOutCard
<1> HIDE DEF outs, bombs
<1> QED BY <1>1, <1>2, <1>3, GameEndSettles DEF IInv

(* Every hand is settled in full: whatever was debited during it, no       *)
(* balance is asked for more than it holds, nothing is minted or lost, and *)
(* the winner's side does not lose.                                        *)
THEOREM HandsAreSettled == Spec => SettledInFull
<1>1. ASSUME IInv, [Next]_vars
      PROVE  state = "play" /\ state' = "free" => Settled
  <2> SUFFICES ASSUME state = "play", state' = "free"
               PROVE  Settled
    OBVIOUS
  <2>1. CASE \E c \in Seat, p \in Play : OnUserOutCard(c, p)
    BY <2>1, <1>1, EndSettles
  <2>2. CASE AutoCard
    <3>1. PICK p : OnUserAutoCard(p)
      BY <2>2 DEF AutoCard
    <3>2. curUser \in Seat
      BY <1>1 DEF IInv, TurnRight
    <3>3. ~OnUserPassCard(curUser)
      BY DEF OnUserPassCard
    <3>4. PICK q : OnUserOutCard(curUser, q)
      BY <3>1, <3>3 DEF OnUserAutoCard
    <3> QED BY <3>2, <3>4, <1>1, EndSettles
  <2>3. CASE \E c \in Seat : OnUserPassCard(c)
    BY <2>3 DEF OnUserPassCard
  <2>4. CASE \/ \E c \in Seat, b \in Balances : EnterTable(c, b)
             \/ \E c \in Seat : PlayerReady(c)
             \/ \E c \in Seat : Leave(c)
             \/ OnGameStart
    BY <2>4 DEF EnterTable, PlayerReady, Leave, OnGameStart
  <2>5. CASE \E c \in Seat, d \in Debits : FlushChangeAccData(c, d)
    BY <2>5 DEF FlushChangeAccData
  <2>6. CASE \E c \in Seat, s \in Bids : OnUserCallScore(c, s)
    BY <2>6 DEF OnUserCallScore
  <2>7. CASE UNCHANGED vars
    BY <2>7 DEF vars
  <2> QED BY <1>1, <2>1, <2>2, <2>3, <2>4, <2>5, <2>6, <2>7 DEF Next
<1>2. []IInv /\ [][Next]_vars => SettledInFull
  <2>1. IInv /\ [Next]_vars =>
          [state = "play" /\ state' = "free" => Settled]_vars
    BY <1>1
  <2> QED BY <2>1, PTL DEF SettledInFull
<1> QED BY <1>2, InvariantHolds, PTL DEF Spec

=============================================================================
