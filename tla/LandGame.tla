------------------------------ MODULE LandGame ------------------------------
(***************************************************************************)
(* One table of the land game (dou dizhu, land_robot_server): three seats, *)
(* the deal, the bids for the landlord, the play and the settlement.       *)
(*                                                                         *)
(* An action is one handler or one tick of the table.  Robots, timeouts    *)
(* and seats on auto all ask the game's AI; the AI is external and may     *)
(* answer anything.  Which sets of cards may be played and which beats     *)
(* which (land_logic.cpp) are constants, and so are the deals: a deal      *)
(* stands for the shuffle, the open card and the hands the control swaps.  *)
(*                                                                         *)
(* Card is the set of the deck's 54 entries.  While blank is FALSE every   *)
(* entry holds its own card.  What a client plays is a list of bytes that  *)
(* nobody compares with the deck; an entry 0x00, which is no card, may be  *)
(* taken for a card just removed (Gone), and is then dealt again.  From    *)
(* there on blank is TRUE, until a new deck: the model keeps count of the  *)
(* entries but no longer knows what they hold.                             *)
(***************************************************************************)
EXTENDS Integers, FiniteSets

CONSTANTS
    Card,            \* the deck
    Blank,           \* bound: the entries a play may have that are no card
    Back,            \* where a deal puts the landlord's three cards
    Deals,           \* bound: the deals considered, each a function of Card
    Play,            \* the sets of entries whose GetCardType is not CT_ERROR
    Beats,           \* the pairs CompareCard accepts: <<first, next>>
    Bomb,            \* the plays that are CT_BOMB_CARD or CT_MISSILE_CARD
    BaseScore,       \* GetBaseScore
    FeeType,         \* m_conf.feeType: "allbase", "win" or "none"
    FeeRate,         \* m_conf.feeValue, in percent
    EnterMin,        \* GetEnterMin
    EnterMax,        \* GetEnterMax
    Balances,        \* bound: the balances players bring
    Bids,            \* bound: the bids considered
    Debits           \* bound: what the lobby takes from a balance at once

Seat == 0 .. 2
INVALID == 3

ASSUME DealAssumption ==
    /\ Back \notin Seat
    /\ \A d \in Deals :
        /\ d \in [Card -> Seat \cup {Back}]
        /\ \A c \in Seat : \E k \in Card : d[k] = c
ASSUME PlayAssumption ==
    /\ Card \cap Blank = {}
    /\ Play \subseteq SUBSET (Card \cup Blank) /\ {} \notin Play
    /\ \A k \in Card \cup Blank : {k} \in Play
ASSUME MoneyAssumption ==
    /\ BaseScore \in Nat \ {0} /\ FeeRate \in 0 .. 100
    /\ Balances \subseteq Nat /\ Bids \subseteq Nat /\ Debits \subseteq Nat

VARIABLES
    state,        \* m_gameState
    inTable,      \* the seats with m_vecPlayers[i].pPlayer # NULL
    ready,        \* the seats with readyState = 1
    score,        \* the balance of who sits there, or sat there last
    firstUser,    \* m_firstUser: the first bidder, then the last winner
    curUser,      \* m_curUser
    bankerUser,   \* m_bankerUser: the landlord
    callScore,    \* m_callScore
    curCallScore, \* m_curCallScore
    turnWiner,    \* m_turnWiner: who played the cards to beat
    turnCard,     \* m_turnCardData: the entries to beat
    hand,         \* m_handCardData
    bankerCard,   \* m_bankerCard: the landlord's three cards
    outCards,     \* m_outCards: the cards played, the next hand's deck
    outCount,     \* m_outCardCount
    bombTimes,    \* 2 to the power m_bombCount
    income,       \* m_hostIncome, of this hand
    blank         \* the deck in use holds entries that are no card

seats == <<inTable, ready>>
bids  == <<bankerUser, callScore, curCallScore>>
cards == <<turnWiner, turnCard, hand, outCards, outCount, bombTimes>>
deck  == <<firstUser, bankerCard>>
vars  == <<state, seats, score, income, curUser, bids, cards, deck, blank>>

-----------------------------------------------------------------------------
Zero == [c \in Seat |-> 0]
NoCards == [c \in Seat |-> {}]
Max(a, b) == IF a >= b THEN a ELSE b
Min(a, b) == IF a <= b THEN a ELSE b

(* The seat that plays after c.                                            *)
After(c) == (c + 1) % 3

(* fault: the balance is not stopped at 0.                                 *)
ChangedSigned(value, by) == value + by

(* CPlayerBase::ChangeAccountValue: a balance stops at 0.                  *)
Changed(value, by) == Max(value + by, 0)

(* A new table: its constructor and MallocTable's ResetTable.              *)
Init ==
    /\ state = "free" /\ inTable = {} /\ ready = {}
    /\ score = Zero /\ income = 0
    /\ firstUser = INVALID /\ curUser = INVALID /\ bankerUser = INVALID
    /\ callScore = Zero /\ curCallScore = 0
    /\ turnWiner = INVALID /\ turnCard = {} /\ hand = NoCards /\ bankerCard = {}
    /\ outCards = {} /\ outCount = Zero /\ bombTimes = 1 /\ blank = FALSE

-----------------------------------------------------------------------------
(* The seats, between two hands.                                           *)

LeaveTable(c) ==
    /\ inTable' = inTable \ {c}
    /\ ready' = ready \ {c}

(* A player takes the first empty seat and is ready at once, since         *)
(* OnPlayerJoin has set AutoReady; with a balance above the limit          *)
(* PlayerReady sends it away again.                                        *)
EnterTable(c, balance) ==
    /\ state = "free"
    /\ c \notin inTable /\ \A d \in Seat \ inTable : c <= d
    /\ balance >= EnterMin /\ balance <= EnterMax
    /\ inTable' = inTable \cup {c}
    /\ ready' = ready \cup {c}
    /\ score' = [score EXCEPT ![c] = balance]
    /\ UNCHANGED <<state, income, curUser, bids, cards, deck, blank>>

PlayerReady(c) ==
    /\ state = "free" /\ c \in inTable
    /\ IF score[c] < EnterMin \/ score[c] > EnterMax
       THEN LeaveTable(c)
       ELSE /\ c \notin ready
            /\ ready' = ready \cup {c}
            /\ UNCHANGED inTable
    /\ UNCHANGED <<state, score, income, curUser, bids, cards, deck, blank>>

(* By request, by CheckReadyTimeOut, or a robot after 30 s without a hand. *)
Leave(c) ==
    /\ state = "free" /\ c \in inTable
    /\ LeaveTable(c)
    /\ UNCHANGED <<state, score, income, curUser, bids, cards, deck, blank>>

(* The lobby reports a debit; it may do so at any time.                    *)
FlushChangeAccData(c, debit) ==
    /\ c \in inTable /\ score[c] > 0
    /\ score' = [score EXCEPT ![c] = Changed(@, -debit)]
    /\ UNCHANGED <<state, seats, income, curUser, bids, cards, deck, blank>>

-----------------------------------------------------------------------------
(* The deal.                                                               *)

(* ShuffleTableCard deals the cards played before when they are a whole    *)
(* deck, and a new deck when they are not.                                 *)
DealCards(d, first) ==
    /\ state' = "call"
    /\ hand' = [c \in Seat |-> {k \in Card : d[k] = c}]
    /\ bankerCard' = {k \in Card : d[k] = Back}
    /\ outCards' = {} /\ turnCard' = {} /\ turnWiner' = INVALID
    /\ blank' = (blank /\ outCards = Card)
    /\ firstUser' = first /\ curUser' = first
    /\ income' = 0

OnGameStart ==
    /\ state = "free" /\ inTable = Seat /\ ready = Seat
    /\ \E d \in Deals, first \in Seat : DealCards(d, first)
    /\ UNCHANGED <<seats, score, bids, outCount, bombTimes>>

ClearBids ==
    /\ bankerUser' = INVALID /\ callScore' = Zero /\ curCallScore' = 0
    /\ outCount' = Zero /\ bombTimes' = 1

(* Nobody has bid: ResetGameData, ResetPlayerReady and OnGameStart again.  *)
ReGameStart ==
    /\ ClearBids
    /\ ready' = {}
    /\ \E d \in Deals, first \in Seat : DealCards(d, first)
    /\ UNCHANGED <<inTable, score>>

-----------------------------------------------------------------------------
(* The bids.                                                               *)

(* fault: an equal bid counts.                                             *)
BidEqual(s) == IF s > 3 \/ s < curCallScore THEN 0 ELSE s

(* A bid that is no raise counts as 0.                                     *)
Bid(s) == IF s > 3 \/ s <= curCallScore THEN 0 ELSE s

(* The highest bidder; of equals, the first in turn from firstUser.        *)
MaxCaller(calls) ==
    LET turn(c) == (c + 3 - firstUser) % 3
    IN  CHOOSE c \in Seat : \A d \in Seat :
            \/ calls[d] < calls[c]
            \/ calls[d] = calls[c] /\ turn(c) <= turn(d)

(* DeductStartFee: the host books the whole fee of everybody.              *)
DeductStartFee ==
    LET fee == IF FeeType = "allbase" THEN (BaseScore * FeeRate) \div 100 ELSE 0
    IN  /\ score' = [c \in Seat |-> Changed(score[c], -fee)]
        /\ income' = income + 3 * fee

(* The landlord takes the three cards and leads.                           *)
SetBanker(b) ==
    /\ state' = "play"
    /\ bankerUser' = b /\ turnWiner' = b /\ curUser' = b
    /\ hand' = [hand EXCEPT ![b] = @ \cup bankerCard]
    /\ DeductStartFee
    /\ UNCHANGED <<seats, turnCard, outCards, outCount, bombTimes, deck, blank>>

(* A client's bid, or on timeout and for a robot the AI's.                 *)
OnUserCallScore(c, s) ==
    LET bid == Bid(s)
        calls == [callScore EXCEPT ![c] = bid]
        last == firstUser = After(c)
    IN  /\ state = "call" /\ c = curUser
        /\ \/ /\ bid = 3 \/ (last /\ calls[MaxCaller(calls)] > 0)
              /\ callScore' = calls /\ curCallScore' = Max(curCallScore, bid)
              /\ SetBanker(IF last THEN MaxCaller(calls) ELSE c)
           \/ /\ last /\ calls[MaxCaller(calls)] = 0
              /\ ReGameStart
           \/ /\ bid # 3 /\ ~last
              /\ callScore' = calls /\ curCallScore' = Max(curCallScore, bid)
              /\ curUser' = After(c)
              /\ UNCHANGED <<state, seats, score, income, bankerUser,
                             cards, deck, blank>>

-----------------------------------------------------------------------------
(* The settlement.                                                         *)

(* Spring: the farmers have played nothing, or the landlord only its first *)
(* cards, when w has won.                                                  *)
Spring(w, outs) ==
    IF w = bankerUser THEN \A c \in Seat \ {w} : outs[c] = 0
                      ELSE outs[bankerUser] = 1

(* fault: one farmer may win all the landlord holds.                       *)
StakeWhole(c, times) ==
    Min(BaseScore * times, Min(score[c], score[bankerUser]))

(* What farmer c wins or pays: no more than it holds, and no more than     *)
(* half of what the landlord holds.                                        *)
Stake(c, times) ==
    Min(BaseScore * times, Min(score[c], score[bankerUser] \div 2))

CalcScore(w, times) ==
    LET farmers == [c \in Seat |->
            IF c = bankerUser THEN 0
            ELSE IF w = bankerUser THEN -Stake(c, times) ELSE Stake(c, times)]
    IN  [farmers EXCEPT
            ![bankerUser] = -(farmers[0] + farmers[1] + farmers[2])]

(* DeducEndFee.                                                            *)
EndFee(win) ==
    IF FeeType = "win" /\ win > 0 THEN (win * FeeRate) \div 100 ELSE 0

(* OnGameEnd, when w has played its last entries q: the settlement,        *)
(* ResetGameData, and those who have become too rich for the room leave,   *)
(* except for robots that are not ready to.                                *)
OnGameEnd(w, q, outs, bombs) ==
    LET spring == IF Spring(w, outs) THEN 2 ELSE 1
        times == bombs * spring * callScore[bankerUser]
        won == CalcScore(w, times)
        fee == [c \in Seat |-> EndFee(won[c])]
    IN  /\ score' = [c \in Seat |-> Changed(score[c], won[c] - fee[c])]
        /\ income' = income + fee[0] + fee[1] + fee[2]
        /\ state' = "free" /\ firstUser' = w /\ curUser' = INVALID
        /\ ClearBids
        /\ turnWiner' = INVALID /\ turnCard' = {} /\ bankerCard' = {}
        /\ hand' = NoCards
        /\ outCards' = outCards \cup q \cup UNION {hand[c] : c \in Seat \ {w}}
        /\ ready' = {}
        /\ \E rich \in SUBSET {c \in inTable : score'[c] >= EnterMax} :
                inTable' = inTable \ rich

-----------------------------------------------------------------------------
(* The play.                                                               *)

(* fault: cards that are not held match.                                   *)
GoneUnheld(c, p) ==
    {q \in SUBSET Card :
        /\ Cardinality(q) = Cardinality(p)
        /\ blank \/ (p \cap Card \subseteq q /\ p \cap Card # {})}

(* RemoveCardList: what hand c loses when p is played.  Each card of p     *)
(* must be held.  An entry that is no card equals the slot of a card just  *)
(* removed, so it needs one before it, and as the hand becomes shorter by  *)
(* the length of p, one more of its cards goes.  In a deck with such       *)
(* entries anything may match.                                             *)
Gone(c, p) ==
    {q \in SUBSET hand[c] :
        /\ Cardinality(q) = Cardinality(p)
        /\ blank \/ (p \cap Card \subseteq q /\ p \cap Card # {})}

CanOut(c, p) ==
    /\ p \in Play
    /\ turnCard = {} \/ <<turnCard, p>> \in Beats
    /\ Gone(c, p) # {}

OnUserOutCard(c, p) ==
    LET outs == [outCount EXCEPT ![c] = @ + 1]
        bombs == IF p \in Bomb THEN 2 * bombTimes ELSE bombTimes
    IN  /\ state = "play" /\ c = curUser
        /\ CanOut(c, p)
        /\ blank' = (blank \/ ~(p \subseteq Card))
        /\ \E q \in Gone(c, p) :
            IF q = hand[c]
            THEN OnGameEnd(c, q, outs, bombs)
            ELSE /\ hand' = [hand EXCEPT ![c] = @ \ q]
                 /\ outCount' = outs /\ bombTimes' = bombs
                 /\ turnWiner' = c /\ turnCard' = p /\ curUser' = After(c)
                 /\ outCards' = outCards \cup q
                 /\ UNCHANGED <<state, seats, score, income, bids, deck>>

(* fault: the leader may pass.                                             *)
PassOnNothing(c) ==
    /\ state = "play" /\ c = curUser
    /\ curUser' = After(c)
    /\ turnCard' = IF After(c) = turnWiner THEN {} ELSE turnCard
    /\ UNCHANGED <<state, seats, score, income, bids, turnWiner, hand, outCards,
                   outCount, bombTimes, deck, blank>>

(* fault: the lead does not come round.                                    *)
PassNeverOver(c) ==
    /\ state = "play" /\ c = curUser /\ turnCard # {}
    /\ curUser' = After(c)
    /\ UNCHANGED <<state, seats, score, income, bids, cards, deck, blank>>

OnUserPassCard(c) ==
    /\ state = "play" /\ c = curUser /\ turnCard # {}
    /\ curUser' = After(c)
    /\ turnCard' = IF After(c) = turnWiner THEN {} ELSE turnCard
    /\ UNCHANGED <<state, seats, score, income, bids, turnWiner, hand, outCards,
                   outCount, bombTimes, deck, blank>>

(* The time is up, the seat is on auto, or a robot plays: its last card,   *)
(* else what the AI answers, p; when that cannot be played, it passes, or  *)
(* leads a single card.                                                    *)
OnUserAutoCard(p) ==
    LET c == curUser
        held == IF blank THEN Card \cup Blank ELSE hand[c]
    IN  /\ state = "play"
        /\ Cardinality(hand[c]) = 1 => \E k \in held : p = {k}
        /\ \/ OnUserOutCard(c, p)
           \/ ~CanOut(c, p) /\ OnUserPassCard(c)
           \/ /\ ~CanOut(c, p) /\ turnCard = {}
              /\ \E k \in held : OnUserOutCard(c, {k})

-----------------------------------------------------------------------------
AutoCard == \E p \in Play \cup {{}} : OnUserAutoCard(p)

Next ==
    \/ \E c \in Seat, b \in Balances : EnterTable(c, b)
    \/ \E c \in Seat : PlayerReady(c)
    \/ \E c \in Seat : Leave(c)
    \/ \E c \in Seat, d \in Debits : FlushChangeAccData(c, d)
    \/ OnGameStart
    \/ \E c \in Seat, s \in Bids : OnUserCallScore(c, s)
    \/ \E c \in Seat, p \in Play : OnUserOutCard(c, p)
    \/ \E c \in Seat : OnUserPassCard(c)
    \/ AutoCard

Spec == Init /\ [][Next]_vars

(* The table's tick runs all the time, and a turn times out.               *)
FairSpec == Spec /\ WF_vars(AutoCard)

-----------------------------------------------------------------------------
(* Properties.                                                             *)

TypeOK ==
    /\ state \in {"free", "call", "play"}
    /\ inTable \subseteq Seat /\ ready \subseteq inTable
    /\ score \in [Seat -> Nat] /\ income \in Nat
    /\ {firstUser, curUser, bankerUser, turnWiner} \subseteq Seat \cup {INVALID}
    /\ callScore \in [Seat -> 0 .. 3] /\ curCallScore \in 0 .. 3
    /\ hand \in [Seat -> SUBSET Card]
    /\ turnCard \subseteq Card \cup Blank /\ bankerCard \subseteq Card
    /\ outCards \subseteq Card /\ blank \in BOOLEAN
    /\ outCount \in [Seat -> Nat] /\ bombTimes \in Nat \ {0}

(* No card is lost or in two places: during a hand the cards held, the     *)
(* landlord's three and the cards played make up the deck, the cards to    *)
(* beat have been played, and after it the cards played (the next deck,    *)
(* ShuffleTableCard) are a whole deck.  All this until somebody plays an   *)
(* entry that is no card, and again from the next new deck: with such an   *)
(* entry a card that is still held goes out of the game unplayed.          *)
Apart(sets, pile) ==
    /\ \A c \in Seat : sets[c] \cap pile = {}
    /\ \A c, d \in Seat : c # d => sets[c] \cap sets[d] = {}
    /\ (UNION {sets[c] : c \in Seat}) \cup pile = Card

EntriesApart ==
    /\ state = "free" => hand = NoCards /\ outCards \in {{}, Card}
    /\ state = "call" => Apart(hand, bankerCard) /\ outCards = {}
    /\ state = "play" => Apart(hand, outCards)

CardsConserved ==
    ~blank => /\ EntriesApart
              /\ state = "play" => turnCard \subseteq outCards

(* Whoever is asked can act: during a hand three players sit at the table, *)
(* it is the turn of one of them, who holds cards; and exactly the one     *)
(* nobody has beaten may lead, so that no player is ever asked to beat its *)
(* own cards or to pass on nothing.                                        *)
TurnRight ==
    /\ state # "free" => inTable = Seat /\ curUser \in Seat
    /\ state = "call" => bankerUser = INVALID
    /\ state = "play" =>
        /\ bankerUser \in Seat /\ turnWiner \in Seat
        /\ \A c \in Seat : hand[c] # {}
        /\ (turnCard = {}) <=> (curUser = turnWiner)

(* The landlord has bid more than both others, and it is its bid that the  *)
(* stakes are multiplied by.                                               *)
LandlordBidMost ==
    state = "play" =>
        /\ callScore[bankerUser] = curCallScore /\ curCallScore > 0
        /\ \A c \in Seat \ {bankerUser} : callScore[c] < curCallScore

(* A hand is settled between its players and the host: what the losers pay *)
(* is what the winners and the host get, although every farmer's stake is  *)
(* limited by what it and the landlord hold, debits arrive during the hand *)
(* and a balance silently stops at 0; and the side of the player who got   *)
(* rid of its cards never loses.                                           *)
Total(f) == f[0] + f[1] + f[2]

Settled ==
    LET farmer(c) == c # bankerUser
        ahead(c) == farmer(c) <=> farmer(curUser)
    IN  /\ Total(score') + income' = Total(score) + income
        /\ \A c \in Seat :
            IF ahead(c) THEN score'[c] >= score[c] ELSE score'[c] <= score[c]

SettledInFull == [][state = "play" /\ state' = "free" => Settled]_vars

(* A hand that is played ends, even when no player answers any more.       *)
HandEnds == state = "play" ~> state = "free"

=============================================================================
